---- MODULE Spec2Model ----
(***************************************************************************)
(* Realtime session/event reconciliation of the pinchy dashboard.          *)
(*                                                                         *)
(*   - the transcript merge of the React chat view                         *)
(*       (web/src/routes/chat.tsx, allMessages and its key helpers)        *)
(*   - the legacy chat view (static/views/chat.js)                         *)
(*   - the React chat view (web/src/routes/chat.tsx, ChatRoute), with its  *)
(*     stream accumulator and reveal loop                                  *)
(*   - the three sockets and their reconnect timers: static/app.js,        *)
(*     chat.tsx and the status hook web/src/lib/ws.ts                      *)
(*                                                                         *)
(* Strings are sequences of one-character strings, so that concatenation,  *)
(* slice, trim and length are the operations the code performs.            *)
(* undefined / null is the value None.                                     *)
(*                                                                         *)
(* Every time stamp and every duration is counted in units of 1000 (10^12  *)
(* does not fit TLC's integers): Date.now() is about 1 700 000 000, the    *)
(* seconds/milliseconds threshold 1e12 is 10^9, 30000 ms is 30 and         *)
(* `* 1000` stays `* 1000`.  Reconnect delays are never added to a time    *)
(* stamp and are kept in ms (500, 1000, 15000).                            *)
(***************************************************************************)
EXTENDS Integers, Sequences, FiniteSets, TLC

VARIABLES
  now,            \* Date.now(), ms
  \* ---- inputs and result of the transcript merge (chat.tsx allMessages)
  mergeRaw,       \* sessionQuery.data.messages, as fetched
  mergeMore,      \* the messages the next fetch result adds at the end
  mergeLive,      \* liveMessages
  mergeOut,       \* allMessages as last rendered
  mergePrev,      \* allMessages of the render before
  mergePc,        \* "idle", "input", "merged", "remerged", "grown"
  \* ---- legacy chat view (static/views/chat.js) and its socket (static/app.js)
  chatAgent,            \* agent the view talks to
  currentSessionId,     \* "session being VIEWED in the chat"
  activeServerSession,  \* "session the SERVER is currently running"
  msgsEl,               \* children of #chat-messages, in document order
  seenMessages,         \* keys of seenMessages
  pendingDedup,         \* pendingDedup: set of [key, at]
  streamingDiv,         \* None, "attached" (a child of msgsEl) or "detached"
  streamingText,        \* accumulated text of the stream
  activityBlock,        \* None, "attached" or "detached"
  typingVisible,        \* typing indicator has class "visible"
  bannerVisible,        \* other-session banner is displayed
  bannerLabel,          \* <<session id, detail>> last written to the banner
  otherSessionTimer,    \* 0, or the time at which the banner timer fires
  newSessionTimer,      \* the 1000 ms timer of "New session" is pending
  pendingLists,         \* loadSessionList calls in flight (records of ListCall)
  pendingLoads,         \* getSession/getReceipts of loadSession in flight: session ids
  wsOpen,               \* state.ws is a socket in readyState OPEN
  backoff,              \* backoff of app.js, ms
  wsTimer,              \* delay (ms) of the pending setTimeout(connectWS), or NoTs
  wsCloses,             \* ghost: closes of the app.js socket since its last open
  sentFrames,           \* client_command frames handed to the socket
  toasts,               \* "Not connected" toasts shown by sendCommand
  inputValue,           \* inputEl.value, the text in the composer
  \* ---- React chat view (web/src/routes/chat.tsx)
  selectedAgent,        \* useState("default")
  selectedSession,      \* useState("")
  userPicked,           \* userPickedSessionRef.current
  agentIds,             \* ids of agentsQuery.data, <<>> while there is no data
  sessionList,          \* session ids of sessionsQuery.data, newest first
  currentData,          \* currentSessionQuery.data?.session_id
  sessionFetched,       \* sessionQuery has data for (selectedAgent, selectedSession)
  liveMessages,
  activityItems,
  receipts,
  seenKeys,             \* seenKeysRef.current
  streamBufferRef,
  revealedLen,          \* revealedLenRef.current
  isStreaming,          \* isStreamingRef.current
  pendingFinalize,      \* content captured by pendingFinalizeRef.current, or NoText
  streamBuffer,
  displayedStream,
  revealRaf,            \* an animation frame of the reveal loop is requested
  typing,
  otherSession,         \* NoOther or [id, detail]
  otherSessionTimerRef, \* 0, or the time at which the banner timer fires
  pendingJump,          \* session id captured by a jump whose refetch is in flight
  rWs,                  \* "connecting", "open", "closing" (close() was called), "closed"
  wsReconnectAttempts,  \* wsReconnectAttempts.current
  wsReconnectRef,       \* delay (ms) of the pending reconnect timer, or NoTs
  rCloses,              \* ghost: closes of the chat socket since its last open
  mounted,              \* `mounted` of the socket effect
  rSent,                \* client_command frames handed to the socket
  sends,                \* ghost: sendMessage calls since the last reset, [text, at]
  turns,                \* ghost: delta texts per turn since the last finalization;
                        \* the last one is the turn whose done has not arrived
  doneAt,               \* ghost: length of liveMessages when the done of the turn
                        \* that awaits its message arrived, NoTs if none awaits
  draft,                \* draft, the text in the composer
  lastOp,               \* ghost: the handler that ran last
  \* ---- the status socket hook (web/src/lib/ws.ts, useGatewayStatusSocket)
  hookWs,               \* "connecting", "open", "closing", "closed"
  retriesRef,           \* retriesRef.current
  hookTimer,            \* delay (ms) of the pending reconnect timer, or NoTs
  hookCloses,           \* ghost: closes of the hook's socket since its last open
  hookMounted,          \* `mounted` of the hook's effect
  \* ---- state that only its own handlers write
  receiptsData,         \* receiptsQuery.data of chat.tsx: [agent, session, receipts]
  \* ---- React logs view (LogsRoute)
  entries,              \* useState<LogEntry[]>([])
  pendingRef,           \* pendingRef.current
  pausedRef,            \* pausedRef.current (equal to `paused` once the effects ran)
  lrWs,                 \* `ws` of the socket effect: "connecting", "open", "closing", "closed"
  retryTimer,           \* a retry timer of the socket effect is pending
  lrMounted,            \* `mounted` of the socket effect
  \* ---- static logs view (static/views/logs.js), one closure per init()
  logInst,              \* ghost: init() calls so far; the last one made the current instance
  logsCurrent,          \* state.currentView is the logs view
  logList,              \* children of #log-lines of the current instance
  pending,              \* `pending` of the current instance
  paused,               \* `paused` of the current instance
  logWs,                \* per instance: index in logSockets of its `logWs`, 0 for null
  logSockets,           \* every /ws/logs socket made so far: [inst, state]
  logTimers,            \* pending setTimeout callbacks of onClose: the instance of each
  \* ---- sockets and the shared UI store
  wsClosing,            \* close() was called on the app.js socket, its close event is due
  wsConnected,          \* wsConnected of useUiStore (state/ui.ts)
  \* ---- the environment of either view
  steps,          \* handlers run so far (events, gestures, timers, REST replies)
  limit           \* handlers that may run in one behaviour

mergeVars == <<mergeRaw, mergeMore, mergeLive, mergeOut, mergePrev, mergePc>>
legacyVars == <<chatAgent, currentSessionId, activeServerSession, msgsEl, seenMessages,
                pendingDedup, streamingDiv, streamingText, activityBlock, typingVisible,
                bannerVisible, bannerLabel, otherSessionTimer, newSessionTimer,
                pendingLists, pendingLoads, wsOpen, backoff, wsTimer, wsCloses, sentFrames, toasts,
                inputValue>>
reactVars == <<selectedAgent, selectedSession, userPicked, agentIds, sessionList,
               currentData, sessionFetched, liveMessages, activityItems, receipts,
               seenKeys, streamBufferRef, turns, doneAt, revealedLen, isStreaming, pendingFinalize,
               streamBuffer, displayedStream, revealRaf, typing, otherSession,
               otherSessionTimerRef, pendingJump, rWs, wsReconnectAttempts, wsReconnectRef, rCloses, mounted, rSent, sends,
               draft, lastOp>>
hookVars == <<hookWs, retriesRef, hookTimer, hookCloses, hookMounted>>
logsReactVars == <<entries, pendingRef, pausedRef, lrWs, retryTimer, lrMounted>>
logsLegacyVars == <<logInst, logsCurrent, logList, pending, paused, logWs, logSockets, logTimers>>
panelVars == <<receiptsData, logsReactVars, logsLegacyVars>>
sockVars == <<wsClosing, wsConnected>>
sideVars == <<panelVars, sockVars>>
envVars == <<steps, limit>>
vars == <<now, mergeVars, legacyVars, reactVars, hookVars, sideVars, envVars>>

\* undefined / null: of a string-valued field (role, agent, session id),
\* of a text (a sequence of characters) and of a number
None == "none"
NoText == <<"none">>
NoTs == 0 - 1

Min(a, b) == IF a < b THEN a ELSE b

Range(s) == {s[i] : i \in 1..Len(s)}

\* s.slice(0, n)
Slice(s, n) == SubSeq(s, 1, Min(Len(s), n))

\* all sequences over S of length 0..n
SeqsUpTo(S, n) == UNION {[1..k -> S] : k \in 0..n}

\* a is a (not necessarily contiguous) subsequence of b
RECURSIVE IsSubseq(_, _)
IsSubseq(a, b) ==
  IF a = <<>> THEN TRUE
  ELSE IF b = <<>> THEN FALSE
  ELSE IF Head(a) = Head(b) THEN IsSubseq(Tail(a), Tail(b))
  ELSE IsSubseq(a, Tail(b))

(***************************************************************************)
(* Bounds of the model                                                     *)
(***************************************************************************)
\* longest persisted list and longest live list handed to the merge
MaxMergeLen == 2
\* the clock (Date.now(), ms) starts at NowStart and advances in steps of
\* ClockStep, at most MaxTicks times
NowStart == 1700000000
ClockStep == 20
MaxTicks == 2

(***************************************************************************)
(* Program constants                                                       *)
(***************************************************************************)
\* messageBaseKey keeps the first 200 characters of the content
KeyPrefixLen == 200
\* the echo window of the legacy view, 30000 ms
DedupWindowMs == 30

(***************************************************************************)
(* chat.tsx helpers: toText, messageBaseKey, messageKey, normalizeMessage  *)
(***************************************************************************)
\* toText: a string is itself, null/undefined is "".
toText(value) == IF value = NoText THEN <<>> ELSE value

\* mutant: the base key takes the whole content
messageBaseKeyWhole(role, content) ==
  <<IF role = None THEN "assistant" ELSE role, "|">> \o toText(content)

\* `${role ?? "assistant"}|${toText(content).slice(0, 200)}`
messageBaseKey(role, content) ==
  <<IF role = None THEN "assistant" ELSE role, "|">> \o Slice(toText(content), KeyPrefixLen)

\* timestamp ? `${base}|${timestamp}` : base   (0 and undefined are falsy)
messageKey(role, content, timestamp) ==
  IF timestamp # NoTs /\ timestamp # 0
    THEN messageBaseKey(role, content) \o <<"|", ToString(timestamp)>>
    ELSE messageBaseKey(role, content)

\* normalizeMessage; Date.now() is the parameter nowMs
normalizeMessage(message, nowMs) ==
  [role      |-> IF message.role = None THEN "assistant" ELSE message.role,
   content   |-> toText(message.content),
   timestamp |-> IF message.timestamp # NoTs THEN message.timestamp ELSE nowMs]

\* .filter((m) => m.role && m.content !== undefined && m.content !== null && m.content !== "")
KeepRaw(m) == m.role # None /\ m.role # "" /\ m.content # NoText /\ m.content # <<>>

\* the list `persisted` of allMessages: filter, then map(normalizeMessage)
RECURSIVE persistedOf(_, _)
persistedOf(raw, nowMs) ==
  IF raw = <<>> THEN <<>>
  ELSE (IF KeepRaw(Head(raw)) THEN <<normalizeMessage(Head(raw), nowMs)>> ELSE <<>>)
       \o persistedOf(Tail(raw), nowMs)

\* mutants of the live filter
KeepLiveExactOnly(m, persistedKeys, persistedBaseKeys) ==
  messageKey(m.role, m.content, m.timestamp) \notin persistedKeys

KeepLiveAll(m, persistedKeys, persistedBaseKeys) == TRUE

\* the live filter of allMessages (lines 356-360)
KeepLive(m, persistedKeys, persistedBaseKeys) ==
  /\ messageKey(m.role, m.content, m.timestamp) \notin persistedKeys
  /\ messageBaseKey(m.role, m.content) \notin persistedBaseKeys

dedupedLive(persisted, live) ==
  LET persistedKeys == {messageKey(p.role, p.content, p.timestamp) : p \in Range(persisted)}
      persistedBaseKeys == {messageBaseKey(p.role, p.content) : p \in Range(persisted)}
  IN SelectSeq(live, LAMBDA m : KeepLive(m, persistedKeys, persistedBaseKeys))

\* mutant: the live messages are put in front of the persisted ones
mergeLiveFirst(persisted, live) ==
  IF persisted = <<>> THEN live
  ELSE IF live = <<>> THEN persisted
  ELSE dedupedLive(persisted, live) \o persisted

\* allMessages, lines 352-361, on the normalized persisted list and the live list
mergeMessages(persisted, live) ==
  IF persisted = <<>> THEN live
  ELSE IF live = <<>> THEN persisted
  ELSE persisted \o dedupedLive(persisted, live)

\* allMessages (useMemo): sessionQuery.data?.messages ?? [] and liveMessages
allMessages(rawMessages, live, nowMs) == mergeMessages(persistedOf(rawMessages, nowMs), live)

Txt(c) == <<c>>

(***************************************************************************)
(* Legacy chat view: static/views/chat.js (closure of init) and the socket *)
(* of static/app.js                                                        *)
(***************************************************************************)
Agents == {"g1", "g2"}
Sessions == {"A", "B"}

\* the first 120 characters of the content enter the legacy keys
LegacyKeyPrefixLen == 120
\* 1e12, the seconds/milliseconds threshold of tsMs
MsThreshold == 1000000000
\* receipt correlation slack of loadSession, 5000 ms
ReceiptSlackMs == 5
\* banner timers: 30000 ms after activity, 5000 ms after a terminal event
BannerIdleMs == 30
BannerDoneMs == 5

\* ---- program constants of the sockets (delays in ms)
\* first reconnect delay of app.js
BackoffStartMs == 500
\* first reconnect delay of the React chat view and of the status hook
ReconnectBaseMs == 1000
\* no reconnect delay is longer
ReconnectCapMs == 15000

Truthy(ts) == ts # NoTs /\ ts # 0

\* msgKey: (role || "") + "|" + (content || "").slice(0, 120) + "|" + (ts || "")
msgKey(role, content, ts) ==
  <<IF role = None THEN "" ELSE role, "|">> \o Slice(toText(content), LegacyKeyPrefixLen)
    \o <<"|">> \o (IF Truthy(ts) THEN <<ToString(ts)>> ELSE <<>>)

\* contentKey: (role || "") + "|" + (content || "").slice(0, 120)
contentKey(role, content) ==
  <<IF role = None THEN "" ELSE role, "|">> \o Slice(toText(content), LegacyKeyPrefixLen)

\* tsMs: normalise timestamps to ms
tsMs(v) == IF ~Truthy(v) THEN 0 ELSE IF v < MsThreshold THEN v * 1000 ELSE v

\* a child of msgsEl. cls is the class after "chat-msg" ("receipt" and
\* "activity" for .chat-receipt and .chat-tool-activity), streaming the class
\* "streaming"; via and sess record where the element came from: "rest" (a
\* fetched transcript, of session sess), "event" (a socket event, tagged
\* sess or untagged), "stream" (stream_delta events) or "local"; at records
\* when finaliseStream closed a streamed element (NoTs for the others).
Entry(cls, text, via, sess) ==
  [cls |-> cls, text |-> text, streaming |-> FALSE, via |-> via, sess |-> sess,
   at |-> NoTs]

\* addSystemMessage
SystemEntry(text) == Entry("system", text, "local", None)
LoadingEntry(sid) == SystemEntry(<<"Loading session: ", sid>>)

\* addUserMessage / addAssistantMessage: the element they append
UserEntry(text, via, sess) == Entry("user", toText(text), via, sess)
AssistantEntry(role, content, via, sess) ==
  LET r == IF role = None \/ role = "" THEN "assistant" ELSE role
      isTool == r \in {"tool_call", "tool_result", "tool"}
  IN Entry(IF isTool THEN "tool" ELSE r, toText(content), via, sess)

\* addReceiptSummary: the last .chat-tool-activity element is removed, the
\* activity block is closed and a receipt element is appended
LastActivity(els) ==
  LET idx == {i \in 1..Len(els) : els[i].cls = "activity"}
  IN IF idx = {} THEN 0 ELSE CHOOSE i \in idx : \A j \in idx : j <= i
WithoutAt(els, i) ==
  IF i = 0 THEN els ELSE SubSeq(els, 1, i - 1) \o SubSeq(els, i + 1, Len(els))
AfterReceipt(els, via, sess) ==
  Append(WithoutAt(els, LastActivity(els)), Entry("receipt", <<>>, via, sess))

\* what the backend stores: transcripts (timestamps in seconds) and receipts
\* (started_at, duration_ms) per session
Transcript(sid) ==
  IF sid = "A"
    THEN << [role |-> "user", content |-> Txt("a"), timestamp |-> 1690000] >>
    ELSE << [role |-> "assistant", content |-> Txt("b"), timestamp |-> 1690100],
            [role |-> "system", content |-> Txt("s"), timestamp |-> 1690000] >>
StoredReceipts(sid) ==
  IF sid = "A" THEN <<>>
  ELSE << [started_at |-> 1690090000, duration_ms |-> 3] >>

\* Array.prototype.sort by a numeric key (stable)
RECURSIVE InsertByTs(_, _)
InsertByTs(m, sorted) ==
  IF sorted = <<>> THEN <<m>>
  ELSE IF tsMs(m.timestamp) < tsMs(Head(sorted).timestamp) THEN <<m>> \o sorted
  ELSE <<Head(sorted)>> \o InsertByTs(m, Tail(sorted))
RECURSIVE SortByTs(_)
SortByTs(msgs) ==
  IF msgs = <<>> THEN <<>>
  ELSE InsertByTs(msgs[Len(msgs)], SortByTs(SubSeq(msgs, 1, Len(msgs) - 1)))
RECURSIVE InsertByStart(_, _)
InsertByStart(r, sorted) ==
  IF sorted = <<>> THEN <<r>>
  ELSE IF r.started_at < Head(sorted).started_at THEN <<r>> \o sorted
  ELSE <<Head(sorted)>> \o InsertByStart(r, Tail(sorted))
RECURSIVE SortByStart(_)
SortByStart(rs) ==
  IF rs = <<>> THEN <<>>
  ELSE InsertByStart(rs[Len(rs)], SortByStart(SubSeq(rs, 1, Len(rs) - 1)))

\* the while loop of lines 469-478: how many receipts at the head of the
\* queue end no later than msgT + 5000
RECURSIVE Drained(_, _)
Drained(queue, msgT) ==
  IF queue = <<>> THEN 0
  ELSE IF Head(queue).started_at + Head(queue).duration_ms <= msgT + ReceiptSlackMs
         THEN 1 + Drained(Tail(queue), msgT)
         ELSE 0

RECURSIVE AddReceipts(_, _, _, _)
AddReceipts(els, n, via, sess) ==
  IF n = 0 THEN els ELSE AddReceipts(AfterReceipt(els, via, sess), n - 1, via, sess)

\* msgs.forEach of loadSession and the trailing receipts (lines 455-485),
\* onto the elements els
RECURSIVE RenderLoaded(_, _, _, _)
RenderLoaded(els, msgs, queue, sid) ==
  IF msgs = <<>> THEN AddReceipts(els, Len(queue), "rest", sid)
  ELSE LET m == Head(msgs)
           role == IF m.role = None THEN "" ELSE m.role
       IN IF role = "system" THEN RenderLoaded(els, Tail(msgs), queue, sid)
          ELSE LET withMsg == Append(els, IF role = "user"
                                            THEN UserEntry(m.content, "rest", sid)
                                            ELSE AssistantEntry(m.role, m.content, "rest", sid))
                   n == IF role = "assistant" THEN Drained(queue, tsMs(m.timestamp)) ELSE 0
               IN RenderLoaded(AddReceipts(withMsg, n, "rest", sid), Tail(msgs),
                               SubSeq(queue, n + 1, Len(queue)), sid)

\* keys registered in seenMessages by the forEach
LoadedKeys(msgs) ==
  {msgKey(m.role, m.content, m.timestamp) :
     m \in {x \in Range(msgs) : x.role # "system"}}

\* ---- bounds of the legacy view
\* most children of msgsEl
MaxMsgs == 3
\* most REST calls of one kind in flight
MaxPending == 2
\* most handlers run in one behaviour
MaxSteps == 6

\* one more handler runs
Budget == steps < limit /\ steps' = steps + 1 /\ limit' = limit

\* a socket frame: json says whether JSON.parse accepts its text, the other
\* fields are those of the parsed object (None / NoText / NoTs: absent)
Ev(type, agent, session) ==
  [type |-> type, agent |-> agent, session |-> session, role |-> None,
   content |-> NoText, delta |-> NoText, done |-> FALSE, tool |-> None,
   timestamp |-> NoTs, agents |-> <<>>, json |-> TRUE]

\* a frame whose text is not JSON
NotJson == [Ev(None, None, None) EXCEPT !.json = FALSE]

\* frames that are not JSON, and JSON objects without a type field
MalformedFrames ==
  {NotJson} \cup {Ev(None, a, s) : a \in Agents, s \in Sessions \cup {None}}

PlainTypes == {"typing_start", "typing_stop", "tool_start", "tool_end",
               "slash_response", "turn_receipt", "bogus"}

\* events that carry neither agent nor agent_id
AgentlessEvents == {Ev("typing_start", None, s) : s \in Sessions \cup {None}}

LegacyEvents ==
  LET base(t) == {Ev(t, a, s) : a \in Agents, s \in Sessions \cup {None}}
  IN UNION {base(t) : t \in PlainTypes}
     \cup {[e EXCEPT !.delta = d, !.done = dn] :
             e \in base("stream_delta"), d \in {Txt("a")}, dn \in BOOLEAN}
     \cup {[e EXCEPT !.role = r, !.content = Txt("a"), !.timestamp = ts] :
             e \in base("session_message"), r \in {"user", "assistant"},
             ts \in {1690000}}
     \cup {[Ev("agent_list", None, None) EXCEPT !.agents = as] :
             as \in {<<"g1", "g2">>, <<"g2">>}}
     \cup MalformedFrames
     \cup AgentlessEvents

\* texts the user submits (inputEl.value)
Drafts == {Txt("a"), <<" ", "a">>, <<" ">>}

\* String.prototype.trim
RECURSIVE TrimLeft(_)
TrimLeft(s) == IF s # <<>> /\ Head(s) = " " THEN TrimLeft(Tail(s)) ELSE s
RECURSIVE TrimRight(_)
TrimRight(s) ==
  IF s # <<>> /\ s[Len(s)] = " " THEN TrimRight(SubSeq(s, 1, Len(s) - 1)) ELSE s
Trim(s) == TrimRight(TrimLeft(s))

RemoveAt(s, k) == SubSeq(s, 1, k - 1) \o SubSeq(s, k + 1, Len(s))

\* an element referenced by the closure once msgsEl.innerHTML = "" ran
Detached(ref) == IF ref = None THEN None ELSE "detached"

\* pendingDedup[key] = at
SetPending(pd, key, at) == {x \in pd : x.key # key} \cup {[key |-> key, at |-> at]}

\* the streaming element (if it is a child of msgsEl) gets new content
WithStreamText(els, text) ==
  [i \in 1..Len(els) |-> IF els[i].streaming THEN [els[i] EXCEPT !.text = text] ELSE els[i]]
\* classList.remove("streaming")
StreamClosed(els, t) ==
  [i \in 1..Len(els) |-> IF els[i].streaming
                           THEN [els[i] EXCEPT !.streaming = FALSE, !.at = t]
                           ELSE els[i]]

\* a call of loadSessionList in flight: kind says what its caller does with
\* the result ("load" at init, "agent", "jump", "refresh"); shown is a ghost, the session the
\* banner named when Jump was clicked (None for the other kinds)
ListCall(kind, shown) == [kind |-> kind, shown |-> shown]

InitLegacy ==
  /\ chatAgent = "g1"
  /\ currentSessionId = None
  /\ activeServerSession = None
  /\ msgsEl = <<SystemEntry(<<"Connected to agent: ", "g1">>)>>
  /\ seenMessages = {}
  /\ pendingDedup = {}
  /\ streamingDiv = None
  /\ streamingText = <<>>
  /\ activityBlock = None
  /\ typingVisible = FALSE
  /\ bannerVisible = FALSE
  /\ bannerLabel = <<>>
  /\ otherSessionTimer = 0
  /\ newSessionTimer = FALSE
  /\ pendingLists = <<ListCall("load", None)>>
  /\ pendingLoads = <<>>
  /\ wsOpen = FALSE
  /\ backoff = BackoffStartMs
  /\ wsTimer = NoTs
  /\ wsCloses = 0
  /\ sentFrames = <<>>
  /\ toasts = 0
  /\ inputValue = <<>>

\* loadSession(sid), lines 422-436, up to the calls of getSession/getReceipts.
\* streamingDiv, streamingText, activityBlock and the typing indicator are
\* not assigned; the elements they reference leave the document.
LoadSessionCall(sid) ==
  /\ Len(pendingLoads) < MaxPending
  /\ msgsEl' = <<LoadingEntry(sid)>>
  /\ seenMessages' = {}
  /\ pendingDedup' = {}
  /\ currentSessionId' = sid
  /\ bannerVisible' = FALSE
  /\ otherSessionTimer' = 0
  /\ pendingLoads' = Append(pendingLoads, sid)
  /\ streamingDiv' = Detached(streamingDiv)
  /\ activityBlock' = Detached(activityBlock)
  /\ UNCHANGED <<streamingText, typingVisible, bannerLabel>>

\* loadSessionList() resolves, its .then/.catch and the caller's .then run
\* (promise reactions only: no event or timer comes between them).
\* result: "fail", or the id reported by getCurrentSession, else the first of
\* the sorted list, else null.
ListLoaded(k, result) ==
  /\ k \in 1..Len(pendingLists)
  /\ LET kind == pendingLists[k].kind
         active == IF result = "fail" THEN activeServerSession ELSE result
         target == CASE kind = "refresh" -> None
                     [] kind \in {"load", "agent"} -> IF result = "fail" THEN None ELSE result
                     [] kind = "jump" -> active
     IN /\ pendingLists' = RemoveAt(pendingLists, k)
        /\ activeServerSession' = active
        /\ IF target # None
             THEN LoadSessionCall(target)
             ELSE /\ currentSessionId' = (IF result = "fail" THEN currentSessionId ELSE result)
                  /\ UNCHANGED <<msgsEl, seenMessages, pendingDedup, bannerVisible,
                                 otherSessionTimer, pendingLoads, streamingDiv,
                                 activityBlock, streamingText, typingVisible, bannerLabel>>
  /\ Budget
  /\ UNCHANGED <<now, mergeVars, reactVars, hookVars, sideVars, inputValue, chatAgent, newSessionTimer, wsOpen, backoff, wsTimer, wsCloses, sentFrames, toasts>>

\* answers of listSessions, filtered and sorted newest first (lines 171-174)
LegacySessionLists == {<<>>, <<"A", "B">>, <<"B">>}

\* activeId of line 176: the current session the backend reports, else the
\* newest listed session, else null
activeId(sessions, cur) ==
  IF cur # None THEN cur ELSE IF sessions # <<>> THEN sessions[1] ELSE None

\* listSessions and getCurrentSession are answered (lines 170-181)
ListAnswered(k, sessions, cur) == ListLoaded(k, activeId(sessions, cur))

\* one of the two requests fails (line 182)
ListFailed(k) == ListLoaded(k, "fail")

\* Promise.all of loadSession settles and its .then/.catch runs.
\* result: "ok" (messages and receipts), "noreceipts" (getReceipts failed and
\* was replaced by no receipts), "empty" (no messages), "error" (getSession failed)
LoadDone(k, result) ==
  /\ k \in 1..Len(pendingLoads)
  /\ LET sid == pendingLoads[k]
         msgs == SortByTs(Transcript(sid))
         queue == IF result = "ok" THEN SortByStart(StoredReceipts(sid)) ELSE <<>>
     IN /\ pendingLoads' = RemoveAt(pendingLoads, k)
        /\ CASE result = "error" ->
                  /\ Len(msgsEl) < MaxMsgs
                  /\ msgsEl' = Append(msgsEl, SystemEntry(<<"Failed to load session ", sid>>))
                  /\ UNCHANGED <<seenMessages, streamingDiv, activityBlock>>
             [] result = "empty" ->
                  /\ msgsEl' = <<SystemEntry(<<"Session ", sid, " (empty)">>)>>
                  /\ streamingDiv' = Detached(streamingDiv)
                  /\ activityBlock' = Detached(activityBlock)
                  /\ UNCHANGED seenMessages
             [] OTHER ->
                  /\ msgsEl' = Append(RenderLoaded(<<>>, msgs, queue, sid),
                                      SystemEntry(<<"Loaded session: ", sid>>))
                  /\ seenMessages' = seenMessages \cup LoadedKeys(msgs)
                  /\ streamingDiv' = Detached(streamingDiv)
                  /\ activityBlock' = IF queue # <<>> THEN None ELSE Detached(activityBlock)
  /\ Budget
  /\ UNCHANGED <<now, mergeVars, reactVars, hookVars, sideVars, inputValue, chatAgent, currentSessionId, activeServerSession,
                 pendingDedup, streamingText, typingVisible, bannerVisible, bannerLabel,
                 otherSessionTimer, newSessionTimer, pendingLists, wsOpen, backoff, wsTimer, wsCloses, sentFrames, toasts>>

\* sessionSel "change": the user picks another session (the dropdown has
\* options once populateSessions has run with a non-empty list)
SessionPick(sid) ==
  /\ Budget
  /\ sid \in Sessions
  /\ currentSessionId # None
  /\ sid # currentSessionId
  /\ LoadSessionCall(sid)
  /\ UNCHANGED <<now, mergeVars, reactVars, hookVars, sideVars, inputValue, chatAgent, activeServerSession, newSessionTimer,
                 pendingLists, wsOpen, backoff, wsTimer, wsCloses, sentFrames, toasts>>

\* agentSel "change"
AgentChange(a) ==
  /\ Budget
  /\ a \in Agents
  /\ a # chatAgent
  /\ Len(pendingLists) < MaxPending
  /\ chatAgent' = a
  /\ bannerVisible' = FALSE
  /\ otherSessionTimer' = 0
  /\ pendingLists' = Append(pendingLists, ListCall("agent", None))
  /\ UNCHANGED <<now, mergeVars, reactVars, hookVars, sideVars, inputValue, currentSessionId, activeServerSession, msgsEl,
                 seenMessages, pendingDedup, streamingDiv, streamingText, activityBlock,
                 typingVisible, bannerLabel, newSessionTimer, pendingLoads, wsOpen, backoff, wsTimer, wsCloses,
                 sentFrames, toasts>>

\* frames a socket is handed in one behaviour
MaxFrames == 1

\* mutant: sendCommand hands the frame to the socket whatever its state
SendCommandAlways(text, agent) ==
  sentFrames' = Append(sentFrames, <<text, agent>>) /\ toasts' = toasts

\* sendCommand of app.js: a frame is handed to the socket when it is OPEN
\* (otherwise the toast "Not connected" is shown and nothing is sent)
SendCommand(text, agent) ==
  IF wsOpen
    THEN sentFrames' = Append(sentFrames, <<text, agent>>) /\ toasts' = toasts
    ELSE sentFrames' = sentFrames /\ toasts' = toasts + 1

\* btnNewSession "click"
NewSession ==
  /\ Budget
  /\ Len(msgsEl) < MaxMsgs
  /\ ~wsOpen \/ Len(sentFrames) < MaxFrames
  /\ SendCommand(<<"/", "n", "e", "w">>, chatAgent)
  /\ msgsEl' = Append(msgsEl, SystemEntry(<<"New session started">>))
  /\ bannerVisible' = FALSE
  /\ otherSessionTimer' = 0
  /\ newSessionTimer' = TRUE
  /\ UNCHANGED <<now, mergeVars, reactVars, hookVars, sideVars, inputValue, chatAgent, currentSessionId, activeServerSession,
                 seenMessages, pendingDedup, streamingDiv, streamingText, activityBlock,
                 typingVisible, bannerLabel, pendingLists, pendingLoads, wsOpen, backoff, wsTimer, wsCloses>>

\* the 1000 ms timer of btnNewSession fires: loadSessionList()
NewSessionTimerFires ==
  /\ newSessionTimer
  /\ Len(pendingLists) < MaxPending
  /\ newSessionTimer' = FALSE
  /\ pendingLists' = Append(pendingLists, ListCall("refresh", None))
  /\ Budget
  /\ UNCHANGED <<now, mergeVars, reactVars, hookVars, sideVars, inputValue, chatAgent, currentSessionId, activeServerSession, msgsEl,
                 seenMessages, pendingDedup, streamingDiv, streamingText, activityBlock,
                 typingVisible, bannerVisible, bannerLabel, otherSessionTimer,
                 pendingLoads, wsOpen, backoff, wsTimer, wsCloses, sentFrames, toasts>>

\* btnJumpSession "click" (the button is part of the banner)
Jump ==
  /\ Budget
  /\ bannerVisible
  /\ activeServerSession # None
  /\ Len(pendingLists) < MaxPending
  /\ bannerVisible' = FALSE
  /\ otherSessionTimer' = 0
  /\ pendingLists' = Append(pendingLists, ListCall("jump", bannerLabel[1]))
  /\ UNCHANGED <<now, mergeVars, reactVars, hookVars, sideVars, inputValue, chatAgent, currentSessionId, activeServerSession, msgsEl,
                 seenMessages, pendingDedup, streamingDiv, streamingText, activityBlock,
                 typingVisible, bannerLabel, newSessionTimer, pendingLoads, wsOpen, backoff, wsTimer, wsCloses,
                 sentFrames, toasts>>

\* sendMessage of the view (btnSend, Enter), lines 273-283, with the text the
\* viewer has typed into the composer
LegacySend(typed) ==
  /\ Budget
  /\ typed \in Drafts
  /\ Trim(typed) # <<>>
  /\ Len(msgsEl) < MaxMsgs
  /\ ~wsOpen \/ Len(sentFrames) < MaxFrames
  /\ SendCommand(Trim(typed), chatAgent)
  /\ msgsEl' = Append(msgsEl, UserEntry(Trim(typed), "local", None))
  /\ pendingDedup' = SetPending(pendingDedup, contentKey("user", Trim(typed)), now)
  /\ inputValue' = <<>>
  /\ typingVisible' = TRUE
  /\ UNCHANGED <<now, mergeVars, reactVars, hookVars, sideVars, chatAgent, currentSessionId, activeServerSession,
                 seenMessages, streamingDiv, streamingText, activityBlock, bannerVisible,
                 bannerLabel, otherSessionTimer, newSessionTimer, pendingLists,
                 pendingLoads, wsOpen, backoff, wsTimer, wsCloses>>

\* the banner timer fires: hideOtherSessionBanner
BannerTimerFires ==
  /\ otherSessionTimer # 0
  /\ now >= otherSessionTimer
  /\ bannerVisible' = FALSE
  /\ otherSessionTimer' = 0
  /\ Budget
  /\ UNCHANGED <<now, mergeVars, reactVars, hookVars, sideVars, inputValue, chatAgent, currentSessionId, activeServerSession, msgsEl,
                 seenMessages, pendingDedup, streamingDiv, streamingText, activityBlock,
                 typingVisible, bannerLabel, newSessionTimer, pendingLists, pendingLoads,
                 wsOpen, backoff, wsTimer, wsCloses, sentFrames, toasts>>

\* app.js line 107: backoff = Math.min(backoff * 2, 15000)
NextBackoff(b) == Min(b * 2, ReconnectCapMs)

\* ws.onopen of app.js, lines 94-99
LegacyWsOpen ==
  /\ ~wsOpen
  /\ wsTimer = NoTs
  /\ ~wsClosing
  /\ wsOpen' = TRUE
  /\ backoff' = BackoffStartMs
  /\ wsCloses' = 0
  /\ Budget
  /\ UNCHANGED <<now, mergeVars, reactVars, hookVars, sideVars, inputValue, chatAgent, currentSessionId,
                 activeServerSession, msgsEl, seenMessages, pendingDedup, streamingDiv,
                 streamingText, activityBlock, typingVisible, bannerVisible, bannerLabel,
                 otherSessionTimer, newSessionTimer, pendingLists, pendingLoads, wsTimer,
                 sentFrames, toasts>>

\* ws.onclose of app.js, lines 101-108 (of an open socket or of one that
\* failed to connect)
LegacyWsClose ==
  /\ wsOpen \/ wsTimer = NoTs
  /\ wsOpen' = FALSE
  /\ wsClosing' = FALSE
  /\ wsTimer' = Min(backoff, ReconnectCapMs)
  /\ backoff' = NextBackoff(backoff)
  /\ wsCloses' = wsCloses + 1
  /\ Budget
  /\ UNCHANGED <<now, mergeVars, reactVars, hookVars, panelVars, wsConnected, inputValue, chatAgent, currentSessionId,
                 activeServerSession, msgsEl, seenMessages, pendingDedup, streamingDiv,
                 streamingText, activityBlock, typingVisible, bannerVisible, bannerLabel,
                 otherSessionTimer, newSessionTimer, pendingLists, pendingLoads,
                 sentFrames, toasts>>

\* ws.onerror, line 110: ws.close(); the socket is CLOSING until its close
\* event is delivered
LegacyWsError ==
  /\ wsOpen \/ (wsTimer = NoTs /\ ~wsClosing)
  /\ wsOpen' = FALSE
  /\ wsClosing' = TRUE
  /\ Budget
  /\ UNCHANGED <<now, mergeVars, reactVars, hookVars, panelVars, wsConnected, wsTimer, backoff, wsCloses, inputValue, chatAgent, currentSessionId,
                 activeServerSession, msgsEl, seenMessages, pendingDedup, streamingDiv,
                 streamingText, activityBlock, typingVisible, bannerVisible, bannerLabel,
                 otherSessionTimer, newSessionTimer, pendingLists, pendingLoads,
                 sentFrames, toasts>>

\* the timer of line 106 fires: connectWS() makes a new socket
LegacyReconnect ==
  /\ wsTimer # NoTs
  /\ wsTimer' = NoTs
  /\ Budget
  /\ UNCHANGED <<now, mergeVars, reactVars, hookVars, sideVars, inputValue, chatAgent, currentSessionId,
                 activeServerSession, msgsEl, seenMessages, pendingDedup, streamingDiv,
                 streamingText, activityBlock, typingVisible, bannerVisible, bannerLabel,
                 otherSessionTimer, newSessionTimer, pendingLists, pendingLoads, wsOpen,
                 backoff, wsCloses, sentFrames, toasts>>

\* time passes
LegacyTick ==
  /\ now < NowStart + MaxTicks * ClockStep
  /\ now' = now + ClockStep
  /\ Budget
  /\ UNCHANGED <<mergeVars, legacyVars, reactVars, hookVars, sideVars>>

\* populateAgents(agents): the chat agent stays if it is listed, else the
\* first listed agent is taken (no session is loaded)
populateAgents(agents) ==
  IF chatAgent \in Range(agents) THEN chatAgent
  ELSE IF agents # <<>> THEN agents[1] ELSE "default"

\* onEvent, lines 707-712: agent_list / list_agents
OnAgentList(e) ==
  /\ e.type \in {"agent_list", "list_agents"}
  /\ chatAgent' = IF e.agents # <<>> THEN populateAgents(e.agents) ELSE chatAgent
  /\ UNCHANGED <<currentSessionId, activeServerSession, msgsEl, seenMessages,
                 pendingDedup, streamingDiv, streamingText, activityBlock, typingVisible,
                 bannerVisible, bannerLabel, otherSessionTimer, newSessionTimer,
                 pendingLists, pendingLoads, wsOpen, backoff, wsTimer, wsCloses, sentFrames, toasts>>

\* onEvent, lines 714-715: an event of another agent
OnForeignAgent(e) ==
  /\ e.type \notin {"agent_list", "list_agents"}
  /\ (IF e.agent = None THEN "" ELSE e.agent) # chatAgent
  /\ UNCHANGED legacyVars

\* the routing test of line 722
IsOtherSession(e) ==
  e.session # None /\ currentSessionId # None /\ e.session # currentSessionId

\* onEvent, lines 722-743: an event of another session of the chat agent
OnOtherSession(e) ==
  /\ e.type \notin {"agent_list", "list_agents"}
  /\ e.agent = chatAgent
  /\ IsOtherSession(e)
  /\ activeServerSession' = e.session
  /\ CASE e.type \in {"typing_start", "tool_start", "stream_delta"} ->
            /\ bannerVisible' = TRUE
            /\ bannerLabel' = <<e.session,
                                CASE e.type = "tool_start" -> "running tool"
                                  [] e.type = "stream_delta" -> "responding"
                                  [] OTHER -> "thinking">>
            /\ otherSessionTimer' = now + BannerIdleMs
            /\ UNCHANGED pendingLists
       [] e.type = "typing_stop" ->
            /\ otherSessionTimer' = now + BannerDoneMs
            /\ UNCHANGED <<bannerVisible, bannerLabel, pendingLists>>
       [] e.type = "turn_receipt" ->
            /\ Len(pendingLists) < MaxPending
            /\ pendingLists' = Append(pendingLists, ListCall("refresh", None))
            /\ otherSessionTimer' = now + BannerDoneMs
            /\ UNCHANGED <<bannerVisible, bannerLabel>>
       [] OTHER ->
            UNCHANGED <<bannerVisible, bannerLabel, otherSessionTimer, pendingLists>>
  /\ UNCHANGED <<chatAgent, currentSessionId, msgsEl, seenMessages, pendingDedup,
                 streamingDiv, streamingText, activityBlock, typingVisible,
                 newSessionTimer, pendingLoads, wsOpen, backoff, wsTimer, wsCloses, sentFrames, toasts>>

\* mutant: no stored content key counts as fresh
EchoFreshNever(cKey) == FALSE

\* the echo test of lines 772-778 on pendingDedup[cKey]
EchoFresh(cKey) == \E x \in pendingDedup : x.key = cKey /\ now - x.at < DedupWindowMs

\* onEvent, lines 746-799: an event of the viewed session, or an untagged one
OnViewed(e) ==
  /\ e.type \notin {"agent_list", "list_agents"}
  /\ e.agent = chatAgent
  /\ ~IsOtherSession(e)
  /\ activeServerSession' = IF e.session # None THEN e.session ELSE activeServerSession
  /\ CASE e.type = "typing_start" ->
            /\ typingVisible' = TRUE
            /\ UNCHANGED <<msgsEl, seenMessages, pendingDedup, streamingDiv,
                           streamingText, activityBlock>>
       [] e.type = "typing_stop" ->
            /\ typingVisible' = FALSE
            /\ UNCHANGED <<msgsEl, seenMessages, pendingDedup, streamingDiv,
                           streamingText, activityBlock>>
       [] e.type = "tool_start" ->
            /\ typingVisible' = TRUE
            /\ IF activityBlock = None
                 THEN /\ Len(msgsEl) < MaxMsgs
                      /\ msgsEl' = Append(msgsEl, Entry("activity", <<>>, "event", e.session))
                      /\ activityBlock' = "attached"
                 ELSE UNCHANGED <<msgsEl, activityBlock>>
            /\ UNCHANGED <<seenMessages, pendingDedup, streamingDiv, streamingText>>
       [] e.type \in {"tool_end", "tool_error"} ->
            /\ typingVisible' = TRUE
            /\ UNCHANGED <<msgsEl, seenMessages, pendingDedup, streamingDiv,
                           streamingText, activityBlock>>
       [] e.type = "stream_delta" ->
            LET fresh == streamingDiv = None
                els == IF fresh
                         THEN Append(msgsEl, [Entry("assistant", <<>>, "stream", e.session)
                                                EXCEPT !.streaming = TRUE])
                         ELSE msgsEl
                text == (IF fresh THEN <<>> ELSE streamingText) \o toText(e.delta)
            IN /\ fresh => Len(msgsEl) < MaxMsgs
               /\ typingVisible' = FALSE
               /\ activityBlock' = None
               /\ IF e.done
                    THEN /\ msgsEl' = StreamClosed(WithStreamText(els, text), now)
                         /\ pendingDedup' = SetPending(pendingDedup,
                                                       contentKey("assistant", text), now)
                         /\ streamingDiv' = None
                         /\ streamingText' = <<>>
                    ELSE /\ msgsEl' = WithStreamText(els, text)
                         /\ streamingDiv' = IF fresh THEN "attached" ELSE streamingDiv
                         /\ streamingText' = text
                         /\ UNCHANGED pendingDedup
               /\ UNCHANGED seenMessages
       [] e.type = "session_message" ->
            LET key == msgKey(e.role, e.content, e.timestamp)
                cKey == contentKey(e.role, e.content)
            IN /\ IF key \in seenMessages
                    THEN UNCHANGED <<msgsEl, seenMessages, pendingDedup>>
                    ELSE IF EchoFresh(cKey)
                      THEN /\ seenMessages' = seenMessages \cup {key}
                           /\ UNCHANGED <<msgsEl, pendingDedup>>
                      ELSE /\ Len(msgsEl) < MaxMsgs
                           /\ pendingDedup' = {x \in pendingDedup : x.key # cKey}
                           /\ seenMessages' = seenMessages \cup {key}
                           /\ msgsEl' = Append(msgsEl,
                                  IF e.role = "user"
                                    THEN UserEntry(e.content, "event", e.session)
                                    ELSE AssistantEntry(e.role, e.content, "event", e.session))
               /\ UNCHANGED <<streamingDiv, streamingText, activityBlock, typingVisible>>
       [] e.type \in {"slash_response", "slash_error"} ->
            /\ Len(msgsEl) < MaxMsgs
            /\ typingVisible' = FALSE
            /\ msgsEl' = Append(msgsEl, AssistantEntry("system", e.content, "event", e.session))
            /\ UNCHANGED <<seenMessages, pendingDedup, streamingDiv, streamingText,
                           activityBlock>>
       [] e.type = "turn_receipt" ->
            /\ Len(msgsEl) < MaxMsgs \/ LastActivity(msgsEl) # 0
            /\ msgsEl' = AfterReceipt(msgsEl, "event", e.session)
            /\ activityBlock' = None
            /\ UNCHANGED <<seenMessages, pendingDedup, streamingDiv, streamingText,
                           typingVisible>>
       [] OTHER ->
            UNCHANGED <<msgsEl, seenMessages, pendingDedup, streamingDiv, streamingText,
                        activityBlock, typingVisible>>
  /\ UNCHANGED <<chatAgent, currentSessionId, bannerVisible, bannerLabel,
                 otherSessionTimer, newSessionTimer, pendingLists, pendingLoads, wsOpen, backoff, wsTimer, wsCloses,
                 sentFrames, toasts>>

\* ws.onmessage of app.js, lines 112-135: a frame that does not parse is
\* dropped, any parsed object is handed to the view's onEvent
LegacyOnEvent(e) ==
  /\ e \in LegacyEvents
  /\ wsOpen
  /\ Budget
  /\ IF ~e.json
       THEN UNCHANGED legacyVars
       ELSE OnAgentList(e) \/ OnForeignAgent(e) \/ OnOtherSession(e) \/ OnViewed(e)
  /\ UNCHANGED <<now, mergeVars, reactVars, hookVars, sideVars, inputValue>>

NextLegacy ==
  \/ \E k \in 1..MaxPending, sessions \in LegacySessionLists, cur \in {None} \cup Sessions :
       ListAnswered(k, sessions, cur)
  \/ \E k \in 1..MaxPending : ListFailed(k)
  \/ \E k \in 1..MaxPending, r \in {"ok", "noreceipts", "empty", "error"} : LoadDone(k, r)
  \/ \E sid \in Sessions : SessionPick(sid)
  \/ \E a \in Agents : AgentChange(a)
  \/ NewSession
  \/ NewSessionTimerFires
  \/ Jump
  \/ \E d \in Drafts : LegacySend(d)
  \/ BannerTimerFires
  \/ LegacyWsOpen
  \/ LegacyWsClose
  \/ LegacyReconnect
  \/ LegacyTick
  \/ \E e \in LegacyEvents : LegacyOnEvent(e)

(***************************************************************************)
(* React chat view: web/src/routes/chat.tsx (ChatRoute)                    *)
(***************************************************************************)
\* ---- bounds of the React view
\* most handlers run in one behaviour of the React view
MaxReactSteps == 6

\* ---- program constants
\* characters revealed per animation frame
CHARS_PER_FRAME == 3
\* the other-session banner is cleared 6000 ms after the turn ended
BannerClearMs == 6
\* appendActivity keeps the last 199 items, setReceipts the last 39
ActivityKeep == 199
ReceiptsKeep == 39

ReactBudget == steps < limit /\ steps' = steps + 1 /\ limit' = limit

\* prev.slice(-n)
LastN(s, n) == IF Len(s) <= n THEN s ELSE SubSeq(s, Len(s) - n + 1, Len(s))

\* socket events the React view receives
ReactEvents ==
  LegacyEvents
  \cup {Ev("session_created", a, s) : a \in Agents, s \in Sessions \cup {None}}
  \cup {[Ev("stream_delta", a, s) EXCEPT !.delta = d, !.done = TRUE] :
          a \in Agents, s \in Sessions \cup {None}, d \in {NoText, <<"a", " ">>}}

\* stream_delta events of a turn of agent g1 whose deltas are longer or shorter
\* than one frame's budget, blank, or absent
StreamEvents ==
  {[Ev("stream_delta", "g1", s) EXCEPT !.delta = d, !.done = dn] :
     s \in {"A", None}, d \in {<<"H", "e", "l">>, <<"l", "o">>, <<" ">>, NoText},
     dn \in BOOLEAN}

\* results of listSessions, newest first
SessionLists == {<<"A", "B">>, <<"B">>}

\* otherSession === null
NoOther == [id |-> None, detail |-> ""]

\* the ghost record of the handler that ran last
Op(op, agent, session, dirty) ==
  [op |-> op, agent |-> agent, session |-> session, dirty |-> dirty,
   type |-> "", done |-> FALSE]

\* the values the reset effect (lines 372-386) leaves
ResetState ==
  /\ liveMessages = <<>>
  /\ receipts = <<>>
  /\ activityItems = <<>>
  /\ seenKeys = {}
  /\ streamBufferRef = <<>>
  /\ streamBuffer = <<>>
  /\ displayedStream = <<>>
  /\ revealedLen = 0
  /\ ~isStreaming
  /\ pendingFinalize = NoText
  /\ ~typing
  /\ otherSession = NoOther

\* mutant: the reset effect forgets the seen-key table
ResetEffectKeepsSeenKeys ==
  /\ liveMessages' = <<>>
  /\ activityItems' = <<>>
  /\ receipts' = <<>>
  /\ UNCHANGED seenKeys
  /\ streamBufferRef' = <<>>
  /\ revealedLen' = 0
  /\ isStreaming' = FALSE
  /\ pendingFinalize' = NoText
  /\ streamBuffer' = <<>>
  /\ displayedStream' = <<>>
  /\ typing' = FALSE
  /\ otherSession' = NoOther
  /\ revealRaf' = FALSE
  /\ turns' = <<<<>>>>
  /\ doneAt' = NoTs

\* the effect of lines 372-386, run when selectedAgent or selectedSession
\* changed; the reveal effect (deps: streamBuffer) then finds nothing to reveal
ResetEffect ==
  /\ liveMessages' = <<>>
  /\ activityItems' = <<>>
  /\ receipts' = <<>>
  /\ seenKeys' = {}
  /\ streamBufferRef' = <<>>
  /\ revealedLen' = 0
  /\ isStreaming' = FALSE
  /\ pendingFinalize' = NoText
  /\ streamBuffer' = <<>>
  /\ displayedStream' = <<>>
  /\ typing' = FALSE
  /\ otherSession' = NoOther
  /\ revealRaf' = FALSE
  /\ turns' = <<<<>>>>
  /\ doneAt' = NoTs

\* the session-selection effect of lines 278-292, as a function of what it reads
AutoSelect(selected, picked, sessions, current) ==
  IF sessions = <<>> THEN ""
  ELSE IF picked /\ selected # "" /\ selected \in Range(sessions) THEN selected
  ELSE IF current # None /\ current \in Range(sessions) THEN current
  ELSE IF selected = "" \/ selected \notin Range(sessions) THEN sessions[1]
  ELSE selected

\* the transcript-local state that a handler leaves alone
ViewUnchanged ==
  UNCHANGED <<liveMessages, activityItems, receipts, seenKeys, streamBufferRef, turns, doneAt,
              revealedLen, isStreaming, pendingFinalize, streamBuffer, displayedStream,
              typing, otherSession, revealRaf>>

\* something of the viewed session is held in the view's state
Dirty == ~ResetState

\* selectedAgent, selectedSession and the query data take new values; the
\* selection effect runs, and the reset effect runs if the selection changed
Selected(agent, session, picked, sessions, current) ==
  LET final == AutoSelect(session, picked, sessions, current)
      switched == agent # selectedAgent \/ session # selectedSession
                    \/ final # selectedSession
  IN /\ selectedAgent' = agent
     /\ selectedSession' = final
     /\ userPicked' = picked
     /\ sessionList' = sessions
     /\ currentData' = current
     /\ IF switched
          THEN /\ ResetEffect
               /\ sessionFetched' = FALSE
               /\ sends' = <<>>
               /\ lastOp' = Op("switch", selectedAgent, selectedSession, Dirty)
          ELSE /\ ViewUnchanged
               /\ UNCHANGED <<sessionFetched, sends>>
               /\ lastOp' = Op("data", selectedAgent, selectedSession, Dirty)

ReactFrame == UNCHANGED <<now, mergeVars, legacyVars, hookVars, sideVars>>

\* agentsQuery resolves; the effect of lines 251-256 replaces an unknown agent
AgentsLoaded ==
  /\ ReactBudget
  /\ mounted
  /\ agentIds = <<>>
  /\ agentIds' = <<"g1", "g2">>
  /\ IF selectedAgent \in {"g1", "g2"}
       THEN Selected(selectedAgent, selectedSession, userPicked, sessionList, currentData)
       ELSE Selected("g1", selectedSession, FALSE, <<>>, None)
  /\ UNCHANGED <<otherSessionTimerRef, pendingJump, rWs, wsReconnectAttempts, wsReconnectRef, rCloses, mounted, rSent>>
  /\ UNCHANGED draft
  /\ ReactFrame

\* the agent picker, line 701 (the queries of the new agent have no data yet)
PickAgent(a) ==
  /\ ReactBudget
  /\ mounted
  /\ a \in Range(agentIds)
  /\ a # selectedAgent
  /\ Selected(a, selectedSession, FALSE, <<>>, None)
  /\ UNCHANGED <<agentIds, otherSessionTimerRef, pendingJump, rWs, wsReconnectAttempts, wsReconnectRef, rCloses, mounted, rSent>>
  /\ UNCHANGED draft
  /\ ReactFrame

\* the session picker, line 711
PickSession(sid) ==
  /\ ReactBudget
  /\ mounted
  /\ sid \in Range(sessionList)
  /\ sid # selectedSession
  /\ Selected(selectedAgent, sid, TRUE, sessionList, currentData)
  /\ UNCHANGED <<agentIds, otherSessionTimerRef, pendingJump, rWs, wsReconnectAttempts, wsReconnectRef, rCloses, mounted, rSent>>
  /\ UNCHANGED draft
  /\ ReactFrame

\* sessionsQuery / currentSessionQuery resolve (first fetch, refetch or
\* invalidation) for the selected agent
SessionsLoaded(list, current) ==
  /\ ReactBudget
  /\ mounted
  /\ selectedAgent \in Range(agentIds)
  /\ list \in SessionLists
  /\ current \in {None} \cup Sessions
  /\ <<list, current>> # <<sessionList, currentData>>
  /\ Selected(selectedAgent, selectedSession, userPicked, list, current)
  /\ UNCHANGED <<agentIds, otherSessionTimerRef, pendingJump, rWs, wsReconnectAttempts, wsReconnectRef, rCloses, mounted, rSent>>
  /\ UNCHANGED draft
  /\ ReactFrame

\* sessionQuery resolves for the key (selectedAgent, selectedSession)
SessionFetched ==
  /\ ReactBudget
  /\ mounted
  /\ selectedSession # ""
  /\ ~sessionFetched
  /\ sessionFetched' = TRUE
  /\ lastOp' = Op("data", selectedAgent, selectedSession, Dirty)
  /\ ViewUnchanged
  /\ UNCHANGED <<selectedAgent, selectedSession, userPicked, sessionList, currentData,
                 agentIds, otherSessionTimerRef, pendingJump, rWs, wsReconnectAttempts, wsReconnectRef, rCloses, mounted, rSent, sends>>
  /\ UNCHANGED draft
  /\ ReactFrame

\* sessionQuery.data?.messages ?? []
SessionData == IF sessionFetched THEN Transcript(selectedSession) ELSE <<>>

\* the transcript the view renders
RenderedMessages == allMessages(SessionData, liveMessages, now)

\* mutant: no event is taken for an event of another session
OtherSessionEventNever(eventSession, currentSession) == FALSE

\* the routing test of line 421
OtherSessionEvent(eventSession, currentSession) ==
  eventSession # None /\ currentSession # "" /\ eventSession # currentSession

\* the reveal effect (deps: streamBuffer) after streamBuffer took a new value
RafAfter(streaming, buffer, revealed) ==
  streaming \/ (Len(buffer) > 0 /\ revealed < Len(buffer))

\* appendActivity(setActivityItems, text, kind)
appendActivity(items, text, kind) ==
  Append(LastN(items, ActivityKeep), [text |-> text, kind |-> kind, timestamp |-> now])

\* the closure stored in pendingFinalizeRef (lines 472-485), run with its content
Finalized(content) ==
  /\ IF content # <<>>
       THEN /\ seenKeys' = seenKeys \cup {messageKey("assistant", content, now),
                                          messageBaseKey("assistant", content)}
            /\ liveMessages' = Append(liveMessages, [role |-> "assistant",
                                                     content |-> content,
                                                     timestamp |-> now])
       ELSE UNCHANGED <<seenKeys, liveMessages>>
  /\ streamBufferRef' = <<>>
  /\ revealedLen' = 0
  /\ streamBuffer' = <<>>
  /\ displayedStream' = <<>>
  /\ typing' = FALSE
  /\ turns' = <<<<>>>>
  /\ doneAt' = NoTs

\* ws.onmessage, lines 420-434: an event of another session of the selected agent
ROtherSession(e) ==
  /\ otherSession' = [id |-> e.session,
                      detail |-> CASE e.type = "tool_start" -> "running tool"
                                   [] e.type = "stream_delta" -> "responding..."
                                   [] e.type = "typing_start" -> "thinking..."
                                   [] e.type = "turn_receipt" -> "completed turn"
                                   [] OTHER -> "working..."]
  /\ otherSessionTimerRef' =
       IF e.type \in {"turn_receipt", "typing_stop"} \/ (e.type = "stream_delta" /\ e.done)
         THEN now + BannerClearMs ELSE 0
  /\ UNCHANGED <<liveMessages, activityItems, receipts, seenKeys, streamBufferRef, turns, doneAt,
                 revealedLen, isStreaming, pendingFinalize, streamBuffer, displayedStream,
                 typing, revealRaf>>

\* mutant: a done never runs the finalize closure itself
FinalizeNowNever(done, buffer) == FALSE

\* lines 468 and 487: done arrived and the buffer is empty
FinalizeNow(done, buffer) == done /\ buffer = <<>>

\* ws.onmessage, lines 462-495: stream_delta of the viewed session
RStreamDelta(e) ==
  LET grows == e.delta # NoText /\ e.delta # <<>>
      buffer == IF grows THEN streamBufferRef \o e.delta ELSE streamBufferRef
      streaming == IF e.done THEN FALSE ELSE (grows \/ isStreaming)
      open == turns[Len(turns)] \o (IF grows THEN e.delta ELSE <<>>)
      received == [turns EXCEPT ![Len(turns)] = open]
  IN IF FinalizeNow(e.done, buffer)
       THEN /\ Finalized(Trim(buffer))
            /\ isStreaming' = FALSE
            /\ pendingFinalize' = NoText
            /\ revealRaf' = IF streamBuffer # <<>> THEN FALSE ELSE revealRaf
            /\ UNCHANGED <<activityItems, receipts, otherSession>>
       ELSE /\ streamBufferRef' = buffer
            /\ streamBuffer' = buffer
            /\ isStreaming' = streaming
            /\ pendingFinalize' = IF e.done THEN Trim(buffer) ELSE pendingFinalize
            /\ revealRaf' = IF buffer # streamBuffer
                              THEN RafAfter(streaming, buffer, revealedLen)
                              ELSE revealRaf
            /\ turns' = IF e.done /\ open # <<>> THEN Append(received, <<>>) ELSE received
            /\ doneAt' = IF e.done /\ doneAt = NoTs THEN Len(liveMessages) ELSE doneAt
            /\ UNCHANGED <<liveMessages, activityItems, receipts, seenKeys, revealedLen,
                           displayedStream, typing, otherSession>>

\* ws.onmessage, lines 496-506: session_message of the viewed session
RSessionMessage(e) ==
  LET role == IF e.role = None THEN "assistant" ELSE e.role
      content == toText(e.content)
      key == messageKey(role, content, e.timestamp)
      baseKey == messageBaseKey(role, content)
  IN /\ IF key \in seenKeys \/ baseKey \in seenKeys
          THEN UNCHANGED <<seenKeys, liveMessages>>
          ELSE /\ seenKeys' = seenKeys \cup {key, baseKey}
               /\ liveMessages' = Append(liveMessages,
                     [role |-> role, content |-> content,
                      timestamp |-> IF e.timestamp # NoTs THEN e.timestamp ELSE now])
     /\ UNCHANGED <<activityItems, receipts, streamBufferRef, turns, doneAt, revealedLen, isStreaming,
                    pendingFinalize, streamBuffer, displayedStream, typing, otherSession,
                    revealRaf>>

\* ws.onmessage, lines 436-461 and 507-540: the other events of the viewed session
RPlain(e) ==
  /\ typing' = CASE e.type \in {"typing_start", "tool_start", "tool_end", "tool_error"} -> TRUE
                 [] e.type \in {"typing_stop", "slash_response", "slash_error"} -> FALSE
                 [] OTHER -> typing
  /\ activityItems' =
       CASE e.type = "session_created" -> appendActivity(activityItems, "Session rotated", "info")
         [] e.type = "tool_start" -> appendActivity(activityItems, "Tool start: tool", "tool")
         [] e.type = "tool_end" -> appendActivity(activityItems, "Tool done: tool", "tool")
         [] e.type = "tool_error" -> appendActivity(activityItems, "Tool error: tool ()", "error")
         [] e.type = "slash_response" ->
              appendActivity(activityItems, "Slash command completed", "info")
         [] e.type = "slash_error" -> appendActivity(activityItems, "Slash command failed", "error")
         [] OTHER -> activityItems
  /\ liveMessages' =
       CASE e.type = "slash_response" ->
              Append(liveMessages, [role |-> "system", content |-> toText(e.content),
                                    timestamp |-> now])
         [] e.type = "slash_error" ->
              Append(liveMessages, [role |-> "system",
                                    content |-> <<"Error: ">> \o toText(e.content),
                                    timestamp |-> now])
         [] OTHER -> liveMessages
  /\ receipts' = IF e.type = "turn_receipt"
                   THEN Append(LastN(receipts, ReceiptsKeep), [timestamp |-> now, total |-> 0])
                   ELSE receipts
  /\ UNCHANGED <<seenKeys, streamBufferRef, turns, doneAt, revealedLen, isStreaming, pendingFinalize,
                 streamBuffer, displayedStream, otherSession, revealRaf>>

\* ws.onmessage, lines 405-541
ROnMessage(e) ==
  /\ ReactBudget
  /\ rWs = "open"
  /\ e \in ReactEvents \cup StreamEvents
  /\ lastOp' = [Op("event", e.agent, e.session, Dirty)
                  EXCEPT !.type = e.type, !.done = e.done]
  /\ IF ~e.json \/ e.type = None
       THEN ViewUnchanged /\ UNCHANGED otherSessionTimerRef
     ELSE IF e.type = "agent_list" /\ e.agents # <<>>
       THEN ViewUnchanged /\ UNCHANGED otherSessionTimerRef
     ELSE IF (IF e.agent = None THEN "" ELSE e.agent) # selectedAgent
       THEN ViewUnchanged /\ UNCHANGED otherSessionTimerRef
     ELSE IF OtherSessionEvent(e.session, selectedSession)
       THEN ROtherSession(e)
     ELSE /\ UNCHANGED otherSessionTimerRef
          /\ CASE e.type = "stream_delta" -> RStreamDelta(e)
               [] e.type = "session_message" -> RSessionMessage(e)
               [] OTHER -> RPlain(e)
  /\ UNCHANGED <<selectedAgent, selectedSession, userPicked, sessionList, currentData,
                 sessionFetched, agentIds, pendingJump, rWs, wsReconnectAttempts, wsReconnectRef, rCloses, mounted, rSent, sends>>
  /\ UNCHANGED draft
  /\ ReactFrame

\* mutant: the loop never finds the reveal behind the buffer
BehindNever(revealed, full) == FALSE

\* the test of line 175
Behind(revealed, full) == revealed < Len(full)

\* mutant: a frame reveals its budget without regard to the buffer's end
RevealStepUnclamped(revealed, full) == revealed + CHARS_PER_FRAME

\* mutant: a frame reveals the whole buffer
RevealStepAll(revealed, full) == Len(full)

\* the revealed length after a frame, line 176
RevealStepStuck(revealed, full) == revealed

RevealStep(revealed, full) == Min(revealed + CHARS_PER_FRAME, Len(full))

\* one animation frame of the reveal loop, lines 173-192
RevealFrame ==
  /\ mounted
  /\ revealRaf
  /\ lastOp' = Op("frame", selectedAgent, selectedSession, Dirty)
  /\ IF Behind(revealedLen, streamBufferRef)
       THEN /\ revealedLen' = RevealStep(revealedLen, streamBufferRef)
            /\ displayedStream' = Slice(streamBufferRef, revealedLen')
            /\ UNCHANGED <<liveMessages, seenKeys, streamBufferRef, turns, doneAt, streamBuffer, typing,
                           pendingFinalize, revealRaf>>
     ELSE IF ~isStreaming /\ Len(streamBufferRef) > 0
       THEN /\ revealRaf' = FALSE
            /\ pendingFinalize' = NoText
            /\ IF pendingFinalize # NoText
                 THEN Finalized(pendingFinalize)
                 ELSE UNCHANGED <<liveMessages, seenKeys, streamBufferRef, turns, doneAt, revealedLen,
                                  streamBuffer, displayedStream, typing>>
     ELSE /\ revealRaf' = isStreaming
          /\ UNCHANGED <<liveMessages, seenKeys, streamBufferRef, turns, doneAt, revealedLen, streamBuffer,
                         displayedStream, typing, pendingFinalize>>
  /\ UNCHANGED <<activityItems, receipts, isStreaming, otherSession, otherSessionTimerRef,
                 selectedAgent, selectedSession, userPicked, sessionList, currentData,
                 sessionFetched, agentIds, pendingJump, rWs, wsReconnectAttempts, wsReconnectRef, rCloses, mounted, rSent, sends>>
  /\ UNCHANGED draft
  /\ ReactFrame

\* one animation frame, counted as a handler run
RevealTick == ReactBudget /\ RevealFrame

\* one animation frame, not counted: frames keep firing when the budget of
\* handler runs is used up
AnimationFrame == RevealFrame /\ UNCHANGED envVars

\* mutant: a send leaves the typed text in the composer
DraftAfterSendKept(typed) == typed

\* setDraft("") of line 580
DraftAfterSend(typed) == <<>>

\* sendMessage, lines 569-581, with the text the viewer has typed into the
\* composer (setDraft of the onChange handler): an early return leaves it there
RSendMessage(typed) ==
  /\ ReactBudget
  /\ mounted
  /\ typed \in Drafts
  /\ Trim(typed) # <<>>
  /\ lastOp' = Op("send", selectedAgent, selectedSession, Dirty)
  /\ IF rWs = "open"
       THEN /\ Len(rSent) < MaxFrames
            /\ rSent' = Append(rSent, <<Trim(typed), selectedAgent>>)
            /\ seenKeys' = seenKeys \cup {messageKey("user", Trim(typed), NoTs),
                                          messageBaseKey("user", Trim(typed))}
            /\ liveMessages' = Append(liveMessages, [role |-> "user", content |-> Trim(typed),
                                                     timestamp |-> now])
            /\ typing' = TRUE
            /\ draft' = DraftAfterSend(typed)
            /\ sends' = Append(sends, [text |-> Trim(typed), at |-> now])
       ELSE /\ draft' = typed
            /\ UNCHANGED <<rSent, seenKeys, liveMessages, typing, sends>>
  /\ UNCHANGED <<activityItems, receipts, streamBufferRef, turns, doneAt, revealedLen, isStreaming,
                 pendingFinalize, streamBuffer, displayedStream, otherSession, revealRaf,
                 otherSessionTimerRef, selectedAgent, selectedSession, userPicked,
                 sessionList, currentData, sessionFetched, agentIds, pendingJump, rWs,
                 wsReconnectAttempts, wsReconnectRef, rCloses, mounted>>
  /\ ReactFrame

\* startNewSession, lines 583-589 (its 600 ms timer refetches the two session
\* queries; their replies are SessionsLoaded)
RStartNewSession ==
  /\ ReactBudget
  /\ mounted
  /\ rWs = "open"
  /\ Len(rSent) < MaxFrames
  /\ rSent' = Append(rSent, <<<<"/", "n", "e", "w">>, selectedAgent>>)
  /\ liveMessages' = Append(liveMessages, [role |-> "system",
                                           content |-> <<"New session started">>,
                                           timestamp |-> now])
  /\ userPicked' = FALSE
  /\ lastOp' = Op("new", selectedAgent, selectedSession, Dirty)
  /\ UNCHANGED <<activityItems, receipts, seenKeys, streamBufferRef, turns, doneAt, revealedLen,
                 isStreaming, pendingFinalize, streamBuffer, displayedStream, typing,
                 otherSession, revealRaf, otherSessionTimerRef, selectedAgent,
                 selectedSession, sessionList, currentData, sessionFetched, agentIds,
                 pendingJump, rWs, wsReconnectAttempts, wsReconnectRef, rCloses, mounted, sends>>
  /\ UNCHANGED draft
  /\ ReactFrame

\* jumpToOtherSession, lines 591-595, up to the call of refetch
RJumpClick ==
  /\ ReactBudget
  /\ mounted
  /\ otherSession # NoOther
  /\ pendingJump = None
  /\ userPicked' = TRUE
  /\ pendingJump' = otherSession.id
  /\ lastOp' = Op("jump", selectedAgent, selectedSession, Dirty)
  /\ ViewUnchanged
  /\ UNCHANGED <<otherSessionTimerRef, selectedAgent, selectedSession, sessionList,
                 currentData, sessionFetched, agentIds, rWs, wsReconnectAttempts, wsReconnectRef, rCloses, mounted, rSent, sends>>
  /\ UNCHANGED draft
  /\ ReactFrame

\* the refetch of jumpToOtherSession settles: setSelectedSession, setOtherSession(null)
RJumpDone(list) ==
  /\ ReactBudget
  /\ mounted
  /\ pendingJump # None
  /\ list \in SessionLists
  /\ pendingJump' = None
  /\ IF pendingJump # selectedSession
          \/ AutoSelect(pendingJump, userPicked, list, currentData) # selectedSession
       THEN Selected(selectedAgent, pendingJump, userPicked, list, currentData)
       ELSE /\ otherSession' = NoOther
            /\ lastOp' = Op("data", selectedAgent, selectedSession, Dirty)
            /\ sessionList' = list
            /\ UNCHANGED <<liveMessages, activityItems, receipts, seenKeys,
                           streamBufferRef, turns, doneAt, revealedLen, isStreaming, pendingFinalize,
                           streamBuffer, displayedStream, typing, revealRaf,
                           selectedAgent, selectedSession, userPicked, currentData,
                           sessionFetched, sends>>
  /\ UNCHANGED <<agentIds, otherSessionTimerRef, rWs, wsReconnectAttempts, wsReconnectRef, rCloses, mounted, rSent>>
  /\ UNCHANGED draft
  /\ ReactFrame

\* the 6000 ms timer of the banner fires: setOtherSession(null)
RBannerTimerFires ==
  /\ ReactBudget
  /\ mounted
  /\ otherSessionTimerRef # 0
  /\ now >= otherSessionTimerRef
  /\ otherSession' = NoOther
  /\ otherSessionTimerRef' = 0
  /\ lastOp' = Op("timer", selectedAgent, selectedSession, Dirty)
  /\ UNCHANGED <<liveMessages, activityItems, receipts, seenKeys, streamBufferRef, turns, doneAt,
                 revealedLen, isStreaming, pendingFinalize, streamBuffer, displayedStream,
                 typing, revealRaf, selectedAgent, selectedSession, userPicked,
                 sessionList, currentData, sessionFetched, agentIds, pendingJump, rWs, wsReconnectAttempts, wsReconnectRef, rCloses, mounted,
                 rSent, sends>>
  /\ UNCHANGED draft
  /\ ReactFrame

\* mutant: the delay doubles without a cap
\* mutant: a close event is delivered to a socket in any state
CloseDueAlways(state) == TRUE

\* the close event of a socket is delivered once, to a socket that is not
\* CLOSED yet (ws.onclose, chat.tsx line 543 and ws.ts line 23)
CloseDue(state) == state \in {"connecting", "open", "closing"}

ReconnectDelayUncapped(attempts) == ReconnectBaseMs * 2 ^ attempts

\* chat.tsx line 549 and ws.ts line 26: Math.min(1000 * 2 ** attempts, 15000)
ReconnectDelay(attempts) == Min(ReconnectBaseMs * 2 ^ attempts, ReconnectCapMs)

\* ws.onopen, lines 398-403
ROpen ==
  /\ ReactBudget
  /\ mounted
  /\ rWs = "connecting"
  /\ rWs' = "open"
  /\ wsReconnectAttempts' = 0
  /\ rCloses' = 0
  /\ lastOp' = Op("open", selectedAgent, selectedSession, Dirty)
  /\ ViewUnchanged
  /\ UNCHANGED <<otherSessionTimerRef, selectedAgent, selectedSession, userPicked,
                 sessionList, currentData, sessionFetched, agentIds, pendingJump,
                 wsReconnectRef, mounted, rSent, sends>>
  /\ UNCHANGED draft
  /\ wsConnected' = TRUE
  /\ UNCHANGED <<now, mergeVars, legacyVars, hookVars, panelVars, wsClosing>>

\* mutant: ws.onclose without the test of `mounted`
RCloseUnmountedReconnects == FALSE

\* ws.onclose, line 544: if (!mounted) return
RCloseUnmounted == ~mounted

\* ws.onclose, lines 543-552
RClose ==
  /\ ReactBudget
  /\ CloseDue(rWs)
  /\ rWs' = "closed"
  /\ lastOp' = Op("close", selectedAgent, selectedSession, Dirty)
  /\ IF RCloseUnmounted
       THEN UNCHANGED <<typing, wsReconnectAttempts, wsReconnectRef, rCloses>>
       ELSE /\ typing' = FALSE
            /\ wsReconnectRef' = ReconnectDelay(wsReconnectAttempts)
            /\ wsReconnectAttempts' = wsReconnectAttempts + 1
            /\ rCloses' = rCloses + 1
  /\ UNCHANGED <<liveMessages, activityItems, receipts, seenKeys, streamBufferRef, turns, doneAt,
                 revealedLen, isStreaming, pendingFinalize, streamBuffer, displayedStream,
                 otherSession, revealRaf, otherSessionTimerRef, selectedAgent,
                 selectedSession, userPicked, sessionList, currentData, sessionFetched,
                 agentIds, pendingJump, mounted, rSent, sends>>
  /\ UNCHANGED draft
  /\ wsConnected' = IF RCloseUnmounted THEN wsConnected ELSE FALSE
  /\ UNCHANGED <<now, mergeVars, legacyVars, hookVars, panelVars, wsClosing>>

\* ws.onerror, line 554: ws?.close()
RError ==
  /\ ReactBudget
  /\ rWs \in {"connecting", "open"}
  /\ rWs' = "closing"
  /\ lastOp' = Op("error", selectedAgent, selectedSession, Dirty)
  /\ ViewUnchanged
  /\ UNCHANGED <<otherSessionTimerRef, selectedAgent, selectedSession, userPicked,
                 sessionList, currentData, sessionFetched, agentIds, pendingJump,
                 wsReconnectAttempts, wsReconnectRef, rCloses, mounted, rSent, sends>>
  /\ UNCHANGED draft
  /\ ReactFrame

\* the reconnect timer of line 551 fires: connect()
RReconnect ==
  /\ ReactBudget
  /\ wsReconnectRef # NoTs
  /\ wsReconnectRef' = NoTs
  /\ rWs' = "connecting"
  /\ lastOp' = Op("connect", selectedAgent, selectedSession, Dirty)
  /\ ViewUnchanged
  /\ UNCHANGED <<otherSessionTimerRef, selectedAgent, selectedSession, userPicked,
                 sessionList, currentData, sessionFetched, agentIds, pendingJump,
                 wsReconnectAttempts, rCloses, mounted, rSent, sends>>
  /\ UNCHANGED draft
  /\ ReactFrame

\* the view unmounts: cleanup of the socket effect, lines 559-566, and of the
\* reveal effect, lines 200-205
RCleanup ==
  /\ ReactBudget
  /\ mounted
  /\ mounted' = FALSE
  /\ wsReconnectRef' = NoTs
  /\ rWs' = IF rWs \in {"connecting", "open"} THEN "closing" ELSE rWs
  /\ typing' = FALSE
  /\ otherSessionTimerRef' = 0
  /\ revealRaf' = FALSE
  /\ lastOp' = Op("cleanup", selectedAgent, selectedSession, Dirty)
  /\ UNCHANGED <<liveMessages, activityItems, receipts, seenKeys, streamBufferRef, turns, doneAt,
                 revealedLen, isStreaming, pendingFinalize, streamBuffer, displayedStream,
                 otherSession, selectedAgent, selectedSession, userPicked, sessionList,
                 currentData, sessionFetched, agentIds, pendingJump, wsReconnectAttempts,
                 rCloses, rSent, sends>>
  /\ UNCHANGED draft
  /\ ReactFrame

(***************************************************************************)
(* The status socket hook: web/src/lib/ws.ts (useGatewayStatusSocket)      *)
(***************************************************************************)
HookFrame == UNCHANGED <<now, mergeVars, legacyVars, reactVars, sideVars>>

\* ws.onopen, lines 18-21
HOpen ==
  /\ Budget
  /\ hookWs = "connecting"
  /\ hookWs' = "open"
  /\ retriesRef' = 0
  /\ hookCloses' = 0
  /\ UNCHANGED <<hookTimer, hookMounted>>
  /\ wsConnected' = TRUE
  /\ UNCHANGED <<now, mergeVars, legacyVars, reactVars, panelVars, wsClosing>>

\* ws.onclose, lines 23-29
HClose ==
  /\ Budget
  /\ CloseDue(hookWs)
  /\ hookWs' = "closed"
  /\ IF ~hookMounted
       THEN UNCHANGED <<retriesRef, hookTimer, hookCloses>>
       ELSE /\ hookTimer' = ReconnectDelay(retriesRef)
            /\ retriesRef' = retriesRef + 1
            /\ hookCloses' = hookCloses + 1
  /\ UNCHANGED hookMounted
  /\ wsConnected' = IF hookMounted THEN FALSE ELSE wsConnected
  /\ UNCHANGED <<now, mergeVars, legacyVars, reactVars, panelVars, wsClosing>>

\* ws.onerror, ws.ts line 30: ws?.close()
HError ==
  /\ Budget
  /\ hookWs \in {"connecting", "open"}
  /\ hookWs' = "closing"
  /\ UNCHANGED <<retriesRef, hookTimer, hookCloses, hookMounted>>
  /\ HookFrame

\* the timer of line 28 fires: connect()
HReconnect ==
  /\ Budget
  /\ hookTimer # NoTs
  /\ hookTimer' = NoTs
  /\ hookWs' = "connecting"
  /\ UNCHANGED <<retriesRef, hookCloses, hookMounted>>
  /\ HookFrame

\* cleanup of the hook's effect, lines 36-41
HCleanup ==
  /\ Budget
  /\ hookMounted
  /\ hookMounted' = FALSE
  /\ hookTimer' = NoTs
  /\ hookWs' = IF hookWs \in {"connecting", "open"} THEN "closing" ELSE hookWs
  /\ UNCHANGED <<retriesRef, hookCloses>>
  /\ wsConnected' = FALSE
  /\ UNCHANGED <<now, mergeVars, legacyVars, reactVars, panelVars, wsClosing>>

\* ---- the receipts panel (chat.tsx, lines 300-341)

\* durations (in the unit of the clock) a turn can have taken when its
\* receipt reaches the client
ReceiptDurations == {0, 1}

\* live receipts whose turns an answer can cover
MaxReceipts == 2

\* the record the backend stores for the turn whose live receipt reached the
\* client at time `at`: the turn started `d` before that
StoredTwin(at, d) == [started_at |-> at - d, duration_ms |-> d]

\* what GET receipts answers for the viewed session once the turns of the
\* first n live receipts are stored too
ReceiptsAnswer(sid, n, d) ==
  StoredReceipts(sid) \o [i \in 1..n |-> StoredTwin(receipts[i].timestamp, d)]

\* receiptsQuery.data?.receipts ?? [] for the query key of this render
receiptsRaw ==
  IF receiptsData.agent = selectedAgent /\ receiptsData.session = selectedSession
    THEN receiptsData.receipts
    ELSE <<>>

\* the timestamp of a persisted receipt, line 318 (started_at is a number in
\* every stored receipt)
receiptTimestamp(r) ==
  IF r.started_at > MsThreshold THEN r.started_at ELSE r.started_at * 1000

\* persistedReceipts, lines 306-334
persistedReceipts(raw) ==
  [i \in 1..Len(raw) |-> [timestamp |-> receiptTimestamp(raw[i]), total |-> 0]]

\* allReceipts, lines 336-341
allReceipts(persisted, live) ==
  IF Len(persisted) = 0 THEN live
  ELSE LET persistedTs == {persisted[i].timestamp : i \in 1..Len(persisted)}
           liveKept == SelectSeq(live, LAMBDA r : r.timestamp \notin persistedTs)
       IN persisted \o liveKept

\* the receipts shown by the panel in this state
shownReceipts == allReceipts(persistedReceipts(receiptsRaw), receipts)

\* the receipts query (enabled with an agent and a session, line 303) is
\* answered
RReceiptsFetched(n, d) ==
  /\ ReactBudget
  /\ mounted
  /\ selectedAgent # "" /\ selectedSession # ""
  /\ n \in 0..Len(receipts)
  /\ d \in ReceiptDurations
  /\ receiptsData' = [agent |-> selectedAgent, session |-> selectedSession,
                      receipts |-> ReceiptsAnswer(selectedSession, n, d)]
  /\ lastOp' = Op("receipts", selectedAgent, selectedSession, Dirty)
  /\ ViewUnchanged
  /\ UNCHANGED <<selectedAgent, selectedSession, userPicked, sessionList, currentData,
                 agentIds, sessionFetched, otherSessionTimerRef, pendingJump, rWs,
                 wsReconnectAttempts, wsReconnectRef, rCloses, mounted, rSent, sends, draft>>
  /\ UNCHANGED <<now, mergeVars, legacyVars, hookVars, logsReactVars, logsLegacyVars, sockVars>>

\* ---- the logs views

\* cap of both logs views (logs.tsx line 12, logs.js line 7)
MAX_LINES == 2000

\* most init() calls of the static logs view, and most sockets it makes
MaxLogViews == 2
MaxLogSockets == 3
\* most handlers run in one behaviour of the logs views
MaxLogSteps == 7

\* a parsed log frame
LogEntry == [level |-> "INFO"]

\* n log lines
Lines(n) == [i \in 1..n |-> LogEntry]

LogsOthers == UNCHANGED <<now, mergeVars, legacyVars, reactVars, hookVars, receiptsData, sockVars>>

\* -- LogsRoute

\* ws.onmessage, lines 66-80; parses says whether JSON.parse accepts the frame
LrFrame(parses) ==
  /\ Budget
  /\ lrWs = "open"
  /\ IF ~parses THEN UNCHANGED <<entries, pendingRef>>
     ELSE IF pausedRef
       THEN /\ pendingRef' = Append(LastN(pendingRef, MAX_LINES - 1), LogEntry)
            /\ UNCHANGED entries
       ELSE /\ entries' = Append(LastN(entries, MAX_LINES - 1), LogEntry)
            /\ UNCHANGED pendingRef
  /\ UNCHANGED <<pausedRef, lrWs, retryTimer, lrMounted, logsLegacyVars>>
  /\ LogsOthers

\* the pause button: setPaused((p) => !p), then the effects of [paused]
\* (lines 37-39 and 100-105)
LrTogglePause ==
  /\ Budget
  /\ lrMounted
  /\ pausedRef' = ~pausedRef
  /\ IF pausedRef' \/ pendingRef = <<>>
       THEN UNCHANGED <<entries, pendingRef>>
       ELSE /\ entries' = LastN(entries, MAX_LINES - 1) \o LastN(pendingRef, MAX_LINES)
            /\ pendingRef' = <<>>
  /\ UNCHANGED <<lrWs, retryTimer, lrMounted, logsLegacyVars>>
  /\ LogsOthers

\* the socket opens (no onopen handler)
LrOpen ==
  /\ Budget
  /\ lrWs = "connecting"
  /\ lrWs' = "open"
  /\ UNCHANGED <<entries, pendingRef, pausedRef, retryTimer, lrMounted, logsLegacyVars>>
  /\ LogsOthers

\* ws.onerror, lines 87-89
LrError ==
  /\ Budget
  /\ lrWs \in {"connecting", "open"}
  /\ lrWs' = "closing"
  /\ UNCHANGED <<entries, pendingRef, pausedRef, retryTimer, lrMounted, logsLegacyVars>>
  /\ LogsOthers

\* ws.onclose, lines 82-85
LrClose ==
  /\ Budget
  /\ lrWs \in {"connecting", "open", "closing"}
  /\ lrWs' = "closed"
  /\ retryTimer' = IF lrMounted THEN TRUE ELSE retryTimer
  /\ UNCHANGED <<entries, pendingRef, pausedRef, lrMounted, logsLegacyVars>>
  /\ LogsOthers

\* the retry timer fires: connect(), lines 62-64
LrRetry ==
  /\ Budget
  /\ retryTimer
  /\ retryTimer' = FALSE
  /\ lrWs' = "connecting"
  /\ UNCHANGED <<entries, pendingRef, pausedRef, lrMounted, logsLegacyVars>>
  /\ LogsOthers

\* the cleanup of the socket effect, lines 94-98
LrCleanup ==
  /\ Budget
  /\ lrMounted
  /\ lrMounted' = FALSE
  /\ retryTimer' = FALSE
  /\ lrWs' = IF lrWs \in {"connecting", "open"} THEN "closing" ELSE lrWs
  /\ UNCHANGED <<entries, pendingRef, pausedRef, logsLegacyVars>>
  /\ LogsOthers

\* -- static/views/logs.js

\* renderLine, lines 66-93: the children of #log-lines afterwards
renderLine(list, entry) == LastN(Append(list, entry), MAX_LINES)

\* pending.forEach(renderLine)
RECURSIVE renderAll(_, _)
renderAll(list, ps) ==
  IF ps = <<>> THEN list ELSE renderAll(renderLine(list, Head(ps)), Tail(ps))

\* streamLogs(...), part of connectLogs: a new socket of instance i
NewLogSocket(i) == Append(logSockets, [inst |-> i, state |-> "connecting"])

\* navigate() to #/logs from another route: init(ctx), lines 9-160
LogsInit ==
  /\ Budget
  /\ ~logsCurrent
  /\ logInst < MaxLogViews
  /\ Len(logSockets) < MaxLogSockets
  /\ logInst' = logInst + 1
  /\ logsCurrent' = TRUE
  /\ logList' = <<>>
  /\ pending' = <<>>
  /\ paused' = FALSE
  /\ logSockets' = NewLogSocket(logInst')
  /\ logWs' = [logWs EXCEPT ![logInst'] = Len(logSockets')]
  /\ UNCHANGED <<logTimers, logsReactVars>>
  /\ LogsOthers

\* navigate() away from #/logs: destroy(), lines 156-158, then the container
\* is emptied for the next view (app.js lines 178-202)
LogsLeave ==
  /\ Budget
  /\ logsCurrent
  /\ logsCurrent' = FALSE
  /\ LET s == logWs[logInst]
     IN /\ logSockets' = IF s # 0 /\ logSockets[s].state \in {"connecting", "open"}
                           THEN [logSockets EXCEPT ![s].state = "closing"]
                           ELSE logSockets
        /\ logWs' = [logWs EXCEPT ![logInst] = 0]
  /\ logList' = <<>>
  /\ UNCHANGED <<logInst, pending, paused, logTimers, logsReactVars>>
  /\ LogsOthers

\* socket s opens (onOpen is null)
LogSockOpen(s) ==
  /\ Budget
  /\ s \in DOMAIN logSockets
  /\ logSockets[s].state = "connecting"
  /\ logSockets' = [logSockets EXCEPT ![s].state = "open"]
  /\ UNCHANGED <<logInst, logsCurrent, logList, pending, paused, logWs, logTimers, logsReactVars>>
  /\ LogsOthers

\* ws.onerror of streamLogs: ws.close()
LogSockError(s) ==
  /\ Budget
  /\ s \in DOMAIN logSockets
  /\ logSockets[s].state \in {"connecting", "open"}
  /\ logSockets' = [logSockets EXCEPT ![s].state = "closing"]
  /\ UNCHANGED <<logInst, logsCurrent, logList, pending, paused, logWs, logTimers, logsReactVars>>
  /\ LogsOthers

\* ws.onclose of streamLogs: onClose(), lines 144-149, starts the timer
LogSockClose(s) ==
  /\ Budget
  /\ s \in DOMAIN logSockets
  /\ logSockets[s].state \in {"connecting", "open", "closing"}
  /\ logSockets' = [logSockets EXCEPT ![s].state = "closed"]
  /\ logTimers' = Append(logTimers, logSockets[s].inst)
  /\ UNCHANGED <<logInst, logsCurrent, logList, pending, paused, logWs, logsReactVars>>
  /\ LogsOthers

\* the timer of onClose fires. container is ctx.container, the #main element
\* of app.js (line 22, handed over at line 204), which never leaves the
\* document: container.isConnected is true and connectLogs() runs.
LogTimerFires(k) ==
  /\ Budget
  /\ k \in DOMAIN logTimers
  /\ Len(logSockets) < MaxLogSockets
  /\ logTimers' = RemoveAt(logTimers, k)
  /\ logSockets' = NewLogSocket(logTimers[k])
  /\ logWs' = [logWs EXCEPT ![logTimers[k]] = Len(logSockets')]
  /\ UNCHANGED <<logInst, logsCurrent, logList, pending, paused, logsReactVars>>
  /\ LogsOthers

\* onMessage, lines 136-142, for a frame on socket s of the current instance
\* (a frame of an earlier instance is rendered into a list that has left the
\* document); a frame that is not JSON is dropped by streamLogs
LogFrame(s, parses) ==
  /\ Budget
  /\ s \in DOMAIN logSockets
  /\ logSockets[s].state = "open"
  /\ logsCurrent /\ logSockets[s].inst = logInst
  /\ IF ~parses THEN UNCHANGED <<logList, pending>>
     ELSE IF paused
       THEN /\ pending' = IF Len(pending) < MAX_LINES THEN Append(pending, LogEntry) ELSE pending
            /\ UNCHANGED logList
       ELSE /\ logList' = renderLine(logList, LogEntry)
            /\ UNCHANGED pending
  /\ UNCHANGED <<logInst, logsCurrent, paused, logWs, logSockets, logTimers, logsReactVars>>
  /\ LogsOthers

\* btnPause click, lines 117-126
LogPauseClick ==
  /\ Budget
  /\ logsCurrent
  /\ paused' = ~paused
  /\ IF paused'
       THEN UNCHANGED <<logList, pending>>
       ELSE /\ logList' = renderAll(logList, pending)
            /\ pending' = <<>>
  /\ UNCHANGED <<logInst, logsCurrent, logWs, logSockets, logTimers, logsReactVars>>
  /\ LogsOthers

\* btnClear click, lines 128-131
LogClearClick ==
  /\ Budget
  /\ logsCurrent
  /\ logList' = <<>>
  /\ UNCHANGED <<logInst, logsCurrent, pending, paused, logWs, logSockets, logTimers,
                 logsReactVars>>
  /\ LogsOthers

\* LogsRoute mounted with n lines shown and p lines held back (p > 0 only
\* while paused)
InitLogsReact(n, p) ==
  /\ entries = Lines(n)
  /\ pendingRef = Lines(p)
  /\ pausedRef = (p > 0)
  /\ lrWs = "connecting"
  /\ retryTimer = FALSE
  /\ lrMounted = TRUE

\* the static page before its logs view was opened
InitLogsLegacy ==
  /\ logInst = 0
  /\ logsCurrent = FALSE
  /\ logList = <<>>
  /\ pending = <<>>
  /\ paused = FALSE
  /\ logWs = [i \in 1..MaxLogViews |-> 0]
  /\ logSockets = <<>>
  /\ logTimers = <<>>

InitReceiptsPanel ==
  /\ receiptsData = [agent |-> "", session |-> "", receipts |-> <<>>]

\* no close() pending on the app.js socket; the store's flag is false until
\* an onopen handler ran (state/ui.ts), which is the case when the chat
\* socket is open
InitSock ==
  /\ wsClosing = FALSE
  /\ wsConnected = (rWs = "open")

InitSide ==
  /\ InitReceiptsPanel
  /\ InitLogsReact(0, 0)
  /\ InitLogsLegacy
  /\ InitSock

InitHook ==
  /\ hookWs = "connecting"
  /\ retriesRef = 0
  /\ hookTimer = NoTs
  /\ hookCloses = 0
  /\ hookMounted = TRUE

\* time passes
ReactTick ==
  /\ ReactBudget
  /\ now < NowStart + MaxTicks * ClockStep
  /\ now' = now + ClockStep
  /\ UNCHANGED <<mergeVars, legacyVars, reactVars, hookVars, sideVars>>

InitReact ==
  /\ selectedAgent = "default"
  /\ selectedSession = ""
  /\ userPicked = FALSE
  /\ agentIds = <<>>
  /\ sessionList = <<>>
  /\ currentData = None
  /\ sessionFetched = FALSE
  /\ liveMessages = <<>>
  /\ activityItems = <<>>
  /\ receipts = <<>>
  /\ seenKeys = {}
  /\ streamBufferRef = <<>>
  /\ revealedLen = 0
  /\ isStreaming = FALSE
  /\ pendingFinalize = NoText
  /\ streamBuffer = <<>>
  /\ displayedStream = <<>>
  /\ revealRaf = FALSE
  /\ typing = FALSE
  /\ otherSession = NoOther
  /\ otherSessionTimerRef = 0
  /\ pendingJump = None
  /\ rWs = "connecting"
  /\ wsReconnectAttempts = 0
  /\ wsReconnectRef = NoTs
  /\ rCloses = 0
  /\ mounted = TRUE
  /\ rSent = <<>>
  /\ sends = <<>>
  /\ draft = <<>>
  /\ turns = <<<<>>>>
  /\ doneAt = NoTs
  /\ lastOp = Op("init", "default", "", FALSE)

NextReact ==
  \/ AgentsLoaded
  \/ \E a \in Agents : PickAgent(a)
  \/ \E sid \in Sessions : PickSession(sid)
  \/ \E list \in SessionLists, current \in {None} \cup Sessions : SessionsLoaded(list, current)
  \/ SessionFetched
  \/ \E e \in ReactEvents : ROnMessage(e)
  \/ RevealTick
  \/ \E d \in Drafts : RSendMessage(d)
  \/ RStartNewSession
  \/ RJumpClick
  \/ \E list \in SessionLists : RJumpDone(list)
  \/ RBannerTimerFires
  \/ ROpen
  \/ RClose
  \/ RReconnect
  \/ ReactTick
  \/ \E n \in 0..MaxReceipts, d \in ReceiptDurations : RReceiptsFetched(n, d)

(***************************************************************************)
(* The merge applied to drawn inputs                                       *)
(***************************************************************************)
\* an instant before NowStart as a backend that counts seconds reports it;
\* the same instant in milliseconds is EarlierSeconds * 1000
EarlierSeconds == (NowStart - 1000) \div 1000

\* a content one character longer than the key prefix; two of them differ
\* in the character after the prefix only
LongText(last) == [i \in 1..(KeyPrefixLen + 1) |-> IF i <= KeyPrefixLen THEN "x" ELSE last]

\* messages of a fetched transcript: complete ones, one without timestamp,
\* one without role, one with empty content, one stamped in seconds and one
\* longer than the key prefix
RawMessages ==
  { [role |-> "user",      content |-> Txt("a"), timestamp |-> NowStart - 90],
    [role |-> "assistant", content |-> Txt("b"), timestamp |-> NowStart - 80],
    [role |-> "user",      content |-> Txt("a"), timestamp |-> NoTs],
    [role |-> None,        content |-> Txt("a"), timestamp |-> NowStart - 90],
    [role |-> "user",      content |-> <<>>,     timestamp |-> NowStart - 90],
    [role |-> "user",      content |-> Txt("c"), timestamp |-> EarlierSeconds],
    [role |-> None,        content |-> LongText("y"), timestamp |-> NowStart - 80] }

\* live messages: the same message as a persisted one (same timestamp), the
\* same text a minute later, messages with a key of their own, the
\* millisecond twin of the persisted message stamped in seconds, and a long
\* one that differs from the persisted long one after the key prefix
LiveMessages ==
  { [role |-> "user",      content |-> Txt("a"), timestamp |-> NowStart - 90],
    [role |-> "user",      content |-> Txt("a"), timestamp |-> NowStart - 50],
    [role |-> "assistant", content |-> Txt("b"), timestamp |-> NowStart - 80],
    [role |-> "user",      content |-> Txt("b"), timestamp |-> NowStart - 50],
    [role |-> "user",      content |-> Txt("c"), timestamp |-> EarlierSeconds * 1000],
    [role |-> "assistant", content |-> LongText("z"), timestamp |-> NowStart - 80] }

InitMergeIdle ==
  /\ mergeRaw = <<>> /\ mergeMore = <<>> /\ mergeLive = <<>>
  /\ mergeOut = <<>> /\ mergePrev = <<>> /\ mergePc = "idle"

InitMergeDraw ==
  /\ mergeRaw \in SeqsUpTo(RawMessages, MaxMergeLen)
  /\ mergeMore \in SeqsUpTo(RawMessages, 1)
  /\ mergeLive \in SeqsUpTo(LiveMessages, MaxMergeLen)
  /\ mergeOut = <<>> /\ mergePrev = <<>> /\ mergePc = "input"

\* a render: allMessages is computed from the query data and the live list
MergeRender ==
  /\ mergePc = "input"
  /\ mergeOut' = allMessages(mergeRaw, mergeLive, now)
  /\ mergePrev' = mergeOut
  /\ mergePc' = "merged"
  /\ UNCHANGED <<now, mergeRaw, mergeMore, mergeLive, legacyVars, reactVars, hookVars, sideVars, envVars>>

\* the merge applied to its own result and the same live list
MergeAgain ==
  /\ mergePc = "merged"
  /\ mergeOut' = mergeMessages(mergeOut, mergeLive)
  /\ mergePrev' = mergeOut
  /\ mergePc' = "remerged"
  /\ UNCHANGED <<now, mergeRaw, mergeMore, mergeLive, legacyVars, reactVars, hookVars, sideVars, envVars>>

\* more of the persisted transcript loads; the memo is recomputed later
MergeGrow ==
  /\ mergePc = "merged"
  /\ mergeMore # <<>>
  /\ now' = now + ClockStep
  /\ mergeRaw' = mergeRaw \o mergeMore
  /\ mergeOut' = allMessages(mergeRaw', mergeLive, now')
  /\ mergePrev' = mergeOut
  /\ mergePc' = "grown"
  /\ UNCHANGED <<mergeMore, mergeLive, legacyVars, reactVars, hookVars, sideVars, envVars>>

InitMerge ==
  /\ now = NowStart /\ steps = 0 /\ limit = 0
  /\ InitMergeDraw /\ InitLegacy /\ InitReact /\ InitHook /\ InitSide
NextMerge == MergeRender \/ MergeAgain \/ MergeGrow
SpecMerge == InitMerge /\ [][NextMerge]_vars

\* both views as constructed, the merge inputs not drawn
InitViews ==
  /\ now = NowStart /\ steps = 0
  /\ InitMergeIdle /\ InitLegacy /\ InitReact /\ InitHook /\ InitSide
InitLegacyRun == InitViews /\ limit = MaxSteps
InitReactRun == InitViews /\ limit = MaxReactSteps
SpecLegacy == InitLegacyRun /\ [][NextLegacy]_vars
SpecReact == InitReactRun /\ [][NextReact]_vars

\* the React view once agents and sessions are loaded, session A (the server's
\* current one) is shown and the socket is open
InitReady ==
  /\ selectedAgent = "g1"
  /\ selectedSession = "A"
  /\ userPicked = FALSE
  /\ agentIds = <<"g1", "g2">>
  /\ sessionList = <<"A", "B">>
  /\ currentData = "A"
  /\ sessionFetched = FALSE
  /\ liveMessages = <<>>
  /\ activityItems = <<>>
  /\ receipts = <<>>
  /\ seenKeys = {}
  /\ streamBufferRef = <<>>
  /\ revealedLen = 0
  /\ isStreaming = FALSE
  /\ pendingFinalize = NoText
  /\ streamBuffer = <<>>
  /\ displayedStream = <<>>
  /\ revealRaf = FALSE
  /\ typing = FALSE
  /\ otherSession = NoOther
  /\ otherSessionTimerRef = 0
  /\ pendingJump = None
  /\ rWs = "open"
  /\ wsReconnectAttempts = 0
  /\ wsReconnectRef = NoTs
  /\ rCloses = 0
  /\ mounted = TRUE
  /\ rSent = <<>>
  /\ sends = <<>>
  /\ draft = <<>>
  /\ turns = <<<<>>>>
  /\ doneAt = NoTs
  /\ lastOp = Op("open", "g1", "A", FALSE)

InitStream ==
  /\ now = NowStart /\ steps = 0 /\ limit = MaxReactSteps
  /\ InitMergeIdle /\ InitLegacy /\ InitReady /\ InitHook /\ InitSide

\* the stream accumulator: deltas and done events, animation frames, sends and
\* session switches
NextStream ==
  \/ \E e \in StreamEvents : ROnMessage(e)
  \/ RevealTick
  \/ \E d \in Drafts : RSendMessage(d)
  \/ \E sid \in Sessions : PickSession(sid)

SpecStream == InitStream /\ [][NextStream]_vars

(***************************************************************************)
(* The three sockets: app.js, the React chat view and the status hook      *)
(***************************************************************************)
\* handlers that run in one behaviour of the sockets: enough for six closes
\* in a row of one socket with the reconnects between them
MaxSocketSteps == 11

\* events the chat socket delivers here: one of the viewed session and one
\* that ends a turn of another session (it arms the banner timer)
SocketEvents == {Ev("typing_start", "g1", "A"), Ev("typing_stop", "g1", "B")}

InitSocket ==
  /\ now = NowStart /\ steps = 0 /\ limit = MaxSocketSteps
  /\ InitMergeIdle /\ InitLegacy /\ InitReady /\ InitHook /\ InitSide

\* opens, closes and reconnects of the three sockets, sends of both chat
\* views, events on the chat socket and the two teardowns
NextSocket ==
  \/ LegacyWsOpen
  \/ LegacyWsClose
  \/ LegacyWsError
  \/ LegacyReconnect
  \/ \E d \in Drafts : LegacySend(d)
  \/ ROpen
  \/ RClose
  \/ RError
  \/ RReconnect
  \/ RCleanup
  \/ \E d \in Drafts : RSendMessage(d)
  \/ \E e \in SocketEvents : ROnMessage(e)
  \/ HOpen
  \/ HClose
  \/ HError
  \/ HReconnect
  \/ HCleanup

SpecSocket == InitSocket /\ [][NextSocket]_vars

\* ---- the stream accumulator with animation frames that keep firing:
\* events, sends and session picks are counted, frames are not, and a frame
\* that is requested is eventually run (requestAnimationFrame)
MaxLiveSteps == 4

InitFinalize ==
  /\ now = NowStart /\ steps = 0 /\ limit = MaxLiveSteps
  /\ InitMergeIdle /\ InitLegacy /\ InitReady /\ InitHook /\ InitSide

NextFinalize ==
  \/ \E e \in StreamEvents : ROnMessage(e)
  \/ AnimationFrame
  \/ \E d \in Drafts : RSendMessage(d)
  \/ \E sid \in Sessions : PickSession(sid)

SpecFinalize == InitFinalize /\ [][NextFinalize]_vars /\ WF_vars(AnimationFrame)

\* ---- a streamed turn and its echo, in both chat views: stream_delta and
\* session_message events of agent g1 and session A,
\* the frames of the reveal loop, the clock, and the session changes that
\* clear the dedup tables
MaxEchoSteps == 7

EchoEvents ==
  {e \in LegacyEvents : /\ e.type \in {"stream_delta", "session_message"}
                        /\ e.agent = "g1" /\ e.session = "A"}

\* a last delta with trailing white space
PaddedDone == [Ev("stream_delta", "g1", "A") EXCEPT !.delta = <<"a", " ">>, !.done = TRUE]

InitEcho ==
  /\ now = NowStart /\ steps = 0 /\ limit = MaxEchoSteps
  /\ InitMergeIdle /\ InitLegacy /\ InitReady /\ InitHook /\ InitSide

NextEcho ==
  \/ LegacyWsOpen
  \/ \E k \in 1..MaxPending : ListAnswered(k, <<"A", "B">>, "A")
  \/ \E k \in 1..MaxPending : LoadDone(k, "ok")
  \/ \E e \in EchoEvents : LegacyOnEvent(e)
  \/ LegacyTick
  \/ \E e \in EchoEvents \cup {PaddedDone} : ROnMessage(e)
  \/ RevealTick
  \/ \E sid \in Sessions : PickSession(sid)

SpecEcho == InitEcho /\ [][NextEcho]_vars

\* ---- the logs views alone. LogsRoute starts with a full or an empty list,
\* the static view starts before its first init().
LogFill == {0, MAX_LINES}

InitLogs ==
  /\ now = NowStart /\ steps = 0 /\ limit = MaxLogSteps
  /\ InitMergeIdle /\ InitLegacy /\ InitReady /\ InitHook
  /\ InitReceiptsPanel
  /\ \E n \in LogFill : InitLogsReact(n, 0)
  /\ InitLogsLegacy
  /\ InitSock

NextLogs ==
  \/ \E parses \in BOOLEAN : LrFrame(parses)
  \/ LrTogglePause
  \/ LrOpen
  \/ LrError
  \/ LrClose
  \/ LrRetry
  \/ LrCleanup
  \/ LogsInit
  \/ LogsLeave
  \/ \E s \in 1..MaxLogSockets : LogSockOpen(s)
  \/ \E s \in 1..MaxLogSockets : LogSockError(s)
  \/ \E s \in 1..MaxLogSockets : LogSockClose(s)
  \/ \E k \in 1..MaxLogSockets : LogTimerFires(k)
  \/ \E s \in 1..MaxLogSockets, parses \in BOOLEAN : LogFrame(s, parses)
  \/ LogPauseClick
  \/ LogClearClick

SpecLogs == InitLogs /\ [][NextLogs]_vars

(***************************************************************************)
(* Claims about the transcript merge (checked under SpecMerge)             *)
(***************************************************************************)
Abs(x) == IF x < 0 THEN 0 - x ELSE x

\* the identity of a message as the specification words it: role, the first
\* 200 characters of the content, and (exact identity) the timestamp
LogicalBase(m) == <<m.role, Slice(m.content, KeyPrefixLen)>>
LogicalExact(m) == <<m.role, Slice(m.content, KeyPrefixLen), m.timestamp>>

\* the list `persisted` of the current render, and the live entries of a
\* rendered transcript (what follows its persisted entries)
mergePersisted == persistedOf(mergeRaw, now)
LivePart(out, nPersisted) == SubSeq(out, nPersisted + 1, Len(out))

ExpectedMerge(P, L) ==
  IF P = <<>> THEN L
  ELSE IF L = <<>> THEN P
  ELSE P \o SelectSeq(L, LAMBDA m :
              \A i \in 1..Len(P) : /\ LogicalExact(P[i]) # LogicalExact(m)
                                    /\ LogicalBase(P[i]) # LogicalBase(m))

\* C6: the merge of persisted list P and live list L is L when P is empty,
\* P when L is empty, and otherwise P followed by the elements of L, in L's
\* order, whose exact key and whose base key are the key of no element of P.
C6_MergeResult ==
  mergePc = "merged" => mergeOut = ExpectedMerge(mergePersisted, mergeLive)

\* C6 witness: a merge that keeps one live message and drops another.
C6_Witness ==
  /\ mergePc = "merged"
  /\ mergePersisted # <<>>
  /\ Len(mergeOut) > Len(mergePersisted)
  /\ Len(mergeOut) < Len(mergePersisted) + Len(mergeLive)

\* C7: merging the live list into the result of the merge gives the result
\* of the merge again: merge(merge(P, L), L) = merge(P, L).
C7_Idempotent ==
  mergePc = "remerged" => mergeOut = mergePrev

\* C7 witness: a second merge whose first merge appended a live message to
\* a non-empty persisted list.
C7_Witness ==
  /\ mergePc = "remerged"
  /\ mergePersisted # <<>>
  /\ Len(mergePrev) > Len(mergePersisted)

\* C8: when the persisted list grows at its end and the merge is run again,
\* the result is the new persisted list followed by live messages; these
\* are a subsequence of the live messages shown before (none added, none
\* repeated, order kept), and none of them has the identity (role, content
\* prefix) of a persisted message.
C8_StableUnderGrowth ==
  mergePc = "grown" =>
    LET P2 == mergePersisted
        oldRaw == SubSeq(mergeRaw, 1, Len(mergeRaw) - Len(mergeMore))
        shownBefore == LivePart(mergePrev, Len(persistedOf(oldRaw, now)))
        shownNow == LivePart(mergeOut, Len(P2))
    IN /\ Len(mergeOut) >= Len(P2)
       /\ SubSeq(mergeOut, 1, Len(P2)) = P2
       /\ IsSubseq(shownNow, shownBefore)
       /\ P2 # <<>> =>
            \A i \in 1..Len(P2), j \in 1..Len(shownNow) :
              LogicalBase(P2[i]) # LogicalBase(shownNow[j])

\* C8 witness: the growth of the persisted list hides one of two live
\* messages that were shown and keeps the other.
C8_Witness ==
  /\ mergePc = "grown"
  /\ LET oldRaw == SubSeq(mergeRaw, 1, Len(mergeRaw) - Len(mergeMore))
         shownBefore == LivePart(mergePrev, Len(persistedOf(oldRaw, now)))
         shownNow == LivePart(mergeOut, Len(mergePersisted))
     IN Len(shownBefore) = 2 /\ Len(shownNow) = 1 /\ persistedOf(oldRaw, now) # <<>>

\* C9 (the claim as stated): a live message whose base key equals that of
\* persisted messages (each carrying its own timestamp), all of them more
\* than the window away in time, is kept by the merge and shown.
C9_DistinctOutsideWindow ==
  (mergePc = "merged" /\ \A i \in 1..Len(mergeRaw) : mergeRaw[i].timestamp # NoTs) =>
    \A j \in 1..Len(mergeLive) :
      LET m == mergeLive[j]
          same == {i \in 1..Len(mergePersisted) :
                     LogicalBase(mergePersisted[i]) = LogicalBase(m)}
      IN (/\ same # {}
          /\ \A i \in same :
                Abs(mergePersisted[i].timestamp - m.timestamp) > DedupWindowMs)
         => m \in Range(LivePart(mergeOut, Len(mergePersisted)))

(***************************************************************************)
(* Claims about the legacy chat view, under SpecLegacy                     *)
(***************************************************************************)

\* a step in which loadSession(sid) ran for the session that is viewed after it
LoadStep ==
  /\ Len(pendingLoads') = Len(pendingLoads) + 1
  /\ pendingLoads'[Len(pendingLoads')] = currentSessionId'
  /\ msgsEl' = <<LoadingEntry(currentSessionId')>>

\* C2: while a session is viewed, currentSessionId takes another session id
\* only in a step that loads that session (loadSession ran for it).
C2_ViewedIdChangesOnlyOnLoad ==
  [][(currentSessionId # None /\ currentSessionId' # None
        /\ currentSessionId' # currentSessionId) => LoadStep]_vars

\* C4: a switch of the viewed session from X to Y that happens while a partial
\* reply is streamed drops the streaming element and empties the stream text.
C4_SwitchDiscardsStream ==
  [][(LoadStep /\ currentSessionId # None /\ currentSessionId' # currentSessionId
        /\ streamingDiv # None /\ streamingText # <<>>)
        => (streamingDiv' = None /\ streamingText' = <<>>)]_vars

\* C5: when the reply of a session fetch is applied, every entry rendered from
\* it belongs to the session that is viewed.
C5_NoStaleResponseApplied ==
  [][Len(pendingLoads') < Len(pendingLoads)
        => \A i \in 1..Len(msgsEl') :
             msgsEl'[i].via = "rest" => msgsEl'[i].sess = currentSessionId']_vars

(***************************************************************************)
(* Claims about the React chat view, under SpecReact                       *)
(***************************************************************************)

\* the handler that ran last was ws.onmessage with an event of the selected
\* agent whose session tag names a session other than the viewed one
OtherSessionEventHandled ==
  /\ lastOp'.op = "event"
  /\ steps' = steps + 1
  /\ lastOp'.agent = selectedAgent
  /\ selectedSession # ""
  /\ lastOp'.session # None
  /\ lastOp'.session # selectedSession

\* C1: handling an event of the selected agent that is tagged with another,
\* non-empty session leaves live messages, stream buffer, revealed length,
\* streaming flag, typing, receipts and activity unchanged.
C1_OtherSessionEventIsolated ==
  [][OtherSessionEventHandled =>
       UNCHANGED <<liveMessages, streamBufferRef, streamBuffer, displayedStream,
                   revealedLen, isStreaming, pendingFinalize, typing, receipts,
                   activityItems, seenKeys>>]_vars

\* an event of session B was just handled while a session with live messages
\* is viewed, and the banner names B
C1_Witness ==
  /\ lastOp.op = "event"
  /\ lastOp.agent = selectedAgent
  /\ selectedSession # ""
  /\ lastOp.session \notin {None, selectedSession}
  /\ otherSession.id = lastOp.session
  /\ liveMessages # <<>>

ShownSends ==
  {i \in DOMAIN RenderedMessages :
     /\ RenderedMessages[i].role = "user"
     /\ RenderedMessages[i].content = sends[1].text
     /\ RenderedMessages[i].timestamp >= sends[1].at}

\* C10: within 30 s of a send (and with no reset since), the rendered
\* transcript holds exactly one entry for it, whether or not its echo arrived.
C10_OneEntryPerSend ==
  (Len(sends) = 1 /\ now - sends[1].at < DedupWindowMs) => Cardinality(ShownSends) = 1

\* the echo of a send is taken for a new message once this much time has passed
EchoExpiryMs == DedupWindowMs + 5

\* ws.onmessage handles the session_message e of the viewed session, whose role
\* is user and whose content was sent from this view, every time more than
\* 35 s ago
LateEchoHandled(e) ==
  /\ e.type = "session_message"
  /\ e.role = "user"
  /\ e.agent = selectedAgent
  /\ ~OtherSessionEvent(e.session, selectedSession)
  /\ ROnMessage(e)
  /\ \E i \in DOMAIN sends : sends[i].text = toText(e.content)
  /\ \A i \in DOMAIN sends :
       sends[i].text = toText(e.content) => now - sends[i].at > EchoExpiryMs

\* C11: a session_message of the viewed session with role user and the content
\* of a send made more than 35 s earlier is appended to the live messages as a
\* new message.
C11_LateEchoIsAppended ==
  [][(lastOp'.op = "event" /\ sends # <<>>) =>
       \A e \in ReactEvents :
         LateEchoHandled(e) =>
           /\ Len(liveMessages') = Len(liveMessages) + 1
           /\ liveMessages'[Len(liveMessages')].role = "user"
           /\ liveMessages'[Len(liveMessages')].content = toText(e.content)]_vars

(***************************************************************************)
(* Claims about the stream accumulator of the React view, under SpecStream *)
(***************************************************************************)

\* a is a prefix of b
IsPrefix(a, b) == Len(a) <= Len(b) /\ a = SubSeq(b, 1, Len(a))

\* C12: the revealed length lies between 0 and the length of the accumulated
\* buffer, and the displayed stream text is a prefix of the buffer.
C12_RevealBound ==
  /\ 0 <= revealedLen
  /\ revealedLen <= Len(streamBufferRef)
  /\ IsPrefix(displayedStream, streamBufferRef)

\* a frame has revealed the first three characters of a buffer of five
C12_Witness ==
  /\ lastOp.op = "frame"
  /\ streamBufferRef = <<"H", "e", "l", "l", "o">>
  /\ revealedLen = 3
  /\ displayedStream = <<"H", "e", "l">>

\* a step during which an assistant turn stays in flight: text is buffered
\* before and after it, so it is neither the finalization nor a switch
TurnStaysInFlight == streamBufferRef # <<>> /\ streamBufferRef' # <<>>

\* C13: while a turn is in flight the revealed length never decreases, only an
\* animation frame changes it, and one frame adds at most CHARS_PER_FRAME.
C13_RevealMonotone ==
  [][TurnStaysInFlight =>
       /\ revealedLen' >= revealedLen
       /\ revealedLen' - revealedLen <= CHARS_PER_FRAME
       /\ revealedLen' # revealedLen => lastOp'.op = "frame"]_vars

\* a frame has revealed one budget of a streaming turn that holds two budgets
C13_Witness ==
  /\ lastOp.op = "frame"
  /\ isStreaming
  /\ Len(streamBufferRef) = 2 * CHARS_PER_FRAME
  /\ revealedLen = CHARS_PER_FRAME

\* the step runs the finalize closure on a buffer that holds text: the buffers
\* are cleared by a frame or by the event handler, not by a switch
FinalizeStep ==
  /\ streamBufferRef # <<>>
  /\ streamBufferRef' = <<>>
  /\ lastOp'.op \in {"frame", "event"}

\* C14: the finalization of a turn whose buffer holds text happens only when
\* the streaming flag is off and the revealed length equals the buffer length.
C14_FinalizeAfterReveal ==
  [][FinalizeStep => (~isStreaming /\ revealedLen = Len(streamBufferRef))]_vars

\* the deltas Hel, lo and done were received, every character was revealed and
\* a frame has finalized the turn as the assistant message Hello
C14_Witness ==
  /\ lastOp.op = "frame"
  /\ streamBufferRef = <<>>
  /\ revealedLen = 0
  /\ liveMessages # <<>>
  /\ liveMessages[Len(liveMessages)].role = "assistant"
  /\ liveMessages[Len(liveMessages)].content = <<"H", "e", "l", "l", "o">>

\* the turns received since the last finalization that hold visible text
TextTurns == {i \in DOMAIN turns : Trim(turns[i]) # <<>>}

EmptyDoneHandled(e) ==
  /\ e.type = "stream_delta"
  /\ e.done
  /\ e.delta \in {NoText, <<>>}
  /\ e.agent = selectedAgent
  /\ ~OtherSessionEvent(e.session, selectedSession)
  /\ streamBufferRef = <<>>
  /\ ROnMessage(e)

\* C16: a done that finds the buffer empty finalizes in the same step: no
\* message is appended, typing is off, no finalize closure is left and the
\* stream state is clear.
C16_EmptyDone ==
  [][lastOp'.op = "event" =>
       \A e \in StreamEvents \cup ReactEvents :
         EmptyDoneHandled(e) =>
           /\ liveMessages' = liveMessages
           /\ ~typing'
           /\ pendingFinalize' = NoText
           /\ streamBufferRef' = <<>>
           /\ streamBuffer' = <<>>
           /\ displayedStream' = <<>>
           /\ revealedLen' = 0
           /\ ~isStreaming']_vars

\* after a send had turned the typing indicator on, a done without text was
\* handled: the indicator is off and the transcript holds the send alone
C16_Witness ==
  /\ lastOp.op = "event"
  /\ lastOp.type = "stream_delta"
  /\ lastOp.done
  /\ lastOp.agent = selectedAgent
  /\ lastOp.session \in {None, selectedSession}
  /\ Len(sends) = 1
  /\ Len(liveMessages) = 1
  /\ liveMessages[1].role = "user"
  /\ streamBufferRef = <<>>
  /\ pendingFinalize = NoText
  /\ ~typing

(***************************************************************************)
(* Claims about the sockets, under SpecSocket                              *)
(***************************************************************************)

\* the delay the claim gives for close number k (from 0) since the last open
BackoffDelay(base, k) == Min(base * 2 ^ k, ReconnectCapMs)

\* C17: the close number k (k = 0, 1, ...) since the socket's last open
\* schedules the reconnect after min(base * 2^k, 15000) ms, base 500 for
\* app.js and 1000 for the React chat view and the status hook; no delay
\* exceeds 15000 ms, and the close of an open socket schedules the base delay.
C17_ReconnectBackoff ==
  [][/\ wsCloses' = wsCloses + 1 =>
          /\ wsTimer' = BackoffDelay(BackoffStartMs, wsCloses)
          /\ wsTimer' <= ReconnectCapMs
          /\ wsOpen => wsTimer' = BackoffStartMs
     /\ rCloses' = rCloses + 1 =>
          /\ wsReconnectRef' = BackoffDelay(ReconnectBaseMs, rCloses)
          /\ wsReconnectRef' <= ReconnectCapMs
          /\ rWs = "open" => wsReconnectRef' = ReconnectBaseMs
     /\ hookCloses' = hookCloses + 1 =>
          /\ hookTimer' = BackoffDelay(ReconnectBaseMs, hookCloses)
          /\ hookTimer' <= ReconnectCapMs
          /\ hookWs = "open" => hookTimer' = ReconnectBaseMs]_vars

\* the app.js socket has closed six times in a row: the sixth delay is the cap
\* (500 * 2^5 is 16000)
C17_Witness ==
  /\ wsCloses = 6
  /\ wsTimer = ReconnectCapMs
  /\ BackoffStartMs * 2 ^ 5 > ReconnectCapMs

\* what teardown leaves of the chat view's socket and timers
ChatTornDown ==
  /\ rWs \in {"closing", "closed"}
  /\ wsReconnectRef = NoTs
  /\ otherSessionTimerRef = 0

\* what teardown leaves of the status hook's socket and timer
HookTornDown ==
  /\ hookWs \in {"closing", "closed"}
  /\ hookTimer = NoTs

\* C18: once the cleanup of the chat view (of the status hook) has run, its
\* socket is closing or closed, no reconnect timer is pending, the banner timer
\* is cancelled, and from then on no socket is opened and no step changes the
\* state of the view (of the hook).
C18_Teardown ==
  [][/\ ~mounted' => ChatTornDown'
     /\ ~hookMounted' => HookTornDown'
     /\ ~mounted =>
          /\ ~mounted'
          /\ UNCHANGED <<liveMessages, activityItems, receipts, seenKeys, streamBufferRef,
                         revealedLen, isStreaming, pendingFinalize, streamBuffer,
                         displayedStream, revealRaf, typing, otherSession,
                         wsReconnectAttempts, selectedAgent, selectedSession, rSent>>
     /\ ~hookMounted =>
          /\ ~hookMounted'
          /\ UNCHANGED retriesRef]_vars

\* both cleanups ran while the socket was closed and a reconnect timer was
\* pending; the chat view had shown the banner of session B with its timer armed
C18_Witness ==
  /\ ~mounted
  /\ lastOp.op = "cleanup"
  /\ rWs = "closed"
  /\ rCloses > 0
  /\ otherSession.id = "B"
  /\ ChatTornDown
  /\ ~hookMounted
  /\ hookWs = "closed"
  /\ hookCloses > 0
  /\ HookTornDown

\* the step is a send of the legacy view (sendMessage or "New session"): one
\* user or system entry is appended to the transcript
LegacySendStep ==
  /\ Len(msgsEl') = Len(msgsEl) + 1
  /\ msgsEl'[Len(msgsEl')].via = "local"

\* C19: a frame reaches a socket only in the step of a send that finds the
\* socket open, one frame per send: a send that finds the socket not open
\* sends nothing, and opens, closes and reconnects add no frame.
C19_NoQueuedFrames ==
  [][/\ sentFrames' # sentFrames =>
          /\ wsOpen
          /\ LegacySendStep
          /\ Len(sentFrames') = Len(sentFrames) + 1
          /\ SubSeq(sentFrames', 1, Len(sentFrames)) = sentFrames
     /\ rSent' # rSent =>
          /\ rWs = "open"
          /\ lastOp'.op \in {"send", "new"}
          /\ Len(rSent') = Len(rSent) + 1
          /\ SubSeq(rSent', 1, Len(rSent)) = rSent]_vars

\* the legacy view sent while its socket was connecting and the socket opened
\* afterwards; the React view has just sent while its socket was not open:
\* neither socket was handed a frame
C19_Witness ==
  /\ toasts = 1
  /\ wsOpen
  /\ sentFrames = <<>>
  /\ lastOp.op = "send"
  /\ rWs # "open"
  /\ rCloses > 0
  /\ rSent = <<>>

\* the step is sendMessage of the React view, called with a non-empty draft
\* while the socket is not open
ReactClosedSendStep ==
  /\ lastOp'.op = "send"
  /\ steps' = steps + 1
  /\ UNCHANGED <<now, legacyVars, hookVars>>
  /\ rWs # "open"

\* C20: a send of a non-empty message that finds the socket not open shows the
\* user an error notice in the same step: the legacy view a toast, the React
\* view some change of what it renders.
C20_ClosedSendNotified ==
  [][/\ (LegacySendStep /\ ~wsOpen) => toasts' = toasts + 1
     /\ ReactClosedSendStep =>
          ~UNCHANGED <<liveMessages, activityItems, receipts, typing, otherSession,
                       displayedStream>>]_vars

(***************************************************************************)
(* C21: malformed frames                                                   *)
(***************************************************************************)
\* the state of the static chat view that a frame can touch
LegacyViewState ==
  <<msgsEl, seenMessages, pendingDedup, streamingDiv, streamingText, activityBlock,
    typingVisible, bannerVisible, bannerLabel, otherSessionTimer, currentSessionId,
    activeServerSession>>

\* C21: handling a frame that is not JSON, or a JSON object without a type
\* field, leaves every piece of the chat view's state as it was: the
\* transcript, the stream buffer, the typing indicator, the activity block,
\* the banner and its timer, the seen keys, the echo table and the session
\* ids the view tracks.
C21_MalformedFrameDropped ==
  [][\A f \in MalformedFrames : LegacyOnEvent(f) => UNCHANGED LegacyViewState]_vars

(***************************************************************************)
(* C22: unknown event types                                                *)
(***************************************************************************)
\* the event types ws.onmessage of chat.tsx has a branch for
KnownTypes ==
  {"typing_start", "typing_stop", "tool_start", "tool_end", "tool_error",
   "stream_delta", "session_message", "slash_response", "slash_error",
   "turn_receipt", "session_created", "agent_list"}

\* C22: handling an event whose type is none of the known kinds leaves the
\* React view's state unchanged (transcript, stream, typing, receipts,
\* activity, seen keys, other-session banner and its timer), whatever agent
\* and session tags it carries.
C22_UnknownTypeIgnored ==
  [][lastOp'.op = "event"
       => \A e \in ReactEvents :
            (e.json /\ e.type # None /\ e.type \notin KnownTypes /\ ROnMessage(e))
              => (ViewUnchanged /\ UNCHANGED otherSessionTimerRef)]_vars

(***************************************************************************)
(* C23: agent routing                                                      *)
(***************************************************************************)
\* C23: an event other than agent_list whose agent identity differs from the
\* selected agent changes neither transcript, stream, typing, receipts,
\* activity nor the other-session banner; and an event is dropped on agent
\* grounds only if it carries an agent identity: a typing_start that carries
\* none and is not tagged with another session turns the typing indicator on.
C23_AgentRouting ==
  [][lastOp'.op = "event"
       => \A e \in ReactEvents :
            (e.json /\ e.type \notin {None, "agent_list"} /\ ROnMessage(e))
              => /\ e.agent \notin {None, selectedAgent}
                      => (ViewUnchanged /\ UNCHANGED otherSessionTimerRef)
                 /\ (e.agent = None /\ e.type = "typing_start"
                       /\ ~OtherSessionEvent(e.session, selectedSession))
                      => typing']_vars

(***************************************************************************)
(* C24: the banner's quiet period                                          *)
(***************************************************************************)
\* events that end the activity of a session
Terminal(e) ==
  e.type \in {"turn_receipt", "typing_stop"} \/ (e.type = "stream_delta" /\ e.done)

\* C24: when the static view handles a terminal event (turn_receipt,
\* typing_stop, stream_delta with done) of its agent for a session other than
\* the viewed one, the banner's timer is left due one quiet period (5 to 6 s)
\* later, so that the banner is cleared then if nothing else arrives.
C24_BannerQuietPeriod ==
  [][\A e \in LegacyEvents :
       (e.json /\ Terminal(e) /\ e.agent = chatAgent /\ IsOtherSession(e)
          /\ LegacyOnEvent(e))
         => /\ otherSessionTimer' >= now + BannerDoneMs
            /\ otherSessionTimer' <= now + BannerClearMs]_vars

(***************************************************************************)
(* C25: Jump                                                               *)
(***************************************************************************)
\* C25: when the session list re-fetched by a click on Jump has been
\* answered, the viewed session of the static view is exactly the session the
\* banner named when Jump was clicked, and no other session.
C25_JumpGoesToBannerSession ==
  [][\A k \in 1..MaxPending, r \in {"fail", None} \cup Sessions :
       (k <= Len(pendingLists) /\ pendingLists[k].kind = "jump" /\ ListLoaded(k, r))
         => currentSessionId' = pendingLists[k].shown]_vars

(***************************************************************************)
(* C26: agent change                                                       *)
(***************************************************************************)
\* the session the viewer is to see for a session list and a current session
PreferredSession(sessions, cur) ==
  IF cur # None /\ cur \in Range(sessions) THEN cur
  ELSE IF sessions # <<>> THEN sessions[1] ELSE None

\* C26: when the session list and the current session requested by an agent
\* change have been answered, the static view's viewed session is the
\* backend's current session if it is non-null and in the list, otherwise the
\* newest session of the list, and none if the list is empty.
C26_AgentChangeSelects ==
  [][\A k \in 1..MaxPending, sessions \in LegacySessionLists, cur \in {None} \cup Sessions :
       (k <= Len(pendingLists) /\ pendingLists[k].kind = "agent"
          /\ ListAnswered(k, sessions, cur))
         => currentSessionId' = PreferredSession(sessions, cur)]_vars

(***************************************************************************)
(* C27: optimistic send                                                    *)
(***************************************************************************)
\* list is base with exactly one element added at its end
AppendsOne(list, base) ==
  Len(list) = Len(base) + 1 /\ SubSeq(list, 1, Len(base)) = base

C28_SameInstantSameKey ==
  mergePc = "merged" =>
  \A p \in Range(persistedOf(mergeRaw, now)), l \in Range(mergeLive) :
    (p.role = l.role /\ p.content = l.content
       /\ tsMs(p.timestamp) = tsMs(l.timestamp))
      => messageKey(p.role, p.content, p.timestamp)
           = messageKey(l.role, l.content, l.timestamp)

(***************************************************************************)
(* C29: key stability                                                      *)
(***************************************************************************)
\* the messages handed to the merge, as they arrived
Arrived == Range(mergeRaw) \cup Range(mergeLive)

\* two messages agree on role (an absent role is "assistant"), on the first
\* 200 characters of the content and on the timestamp
SameIdentity(m1, m2) ==
  /\ (IF m1.role = None THEN "assistant" ELSE m1.role)
       = (IF m2.role = None THEN "assistant" ELSE m2.role)
  /\ Slice(toText(m1.content), KeyPrefixLen) = Slice(toText(m2.content), KeyPrefixLen)
  /\ m1.timestamp = m2.timestamp

TurnMessageStep ==
  /\ doneAt # NoTs
  /\ doneAt' = NoTs
  /\ Len(liveMessages') = Len(liveMessages) + 1
  /\ liveMessages'[Len(liveMessages')].role = "assistant"

\* C30: the entries of the live list are in the order in which the
\* operations that produced them arrived: when the assistant message of a
\* streamed turn is put into the list, the list holds no entry that was
\* produced after the turn's done event arrived.
C30_ArrivalOrder ==
  [][TurnMessageStep => Len(liveMessages) = doneAt]_vars

(***************************************************************************)
(* C31: events during a fetch                                              *)
(***************************************************************************)
\* a complete user or assistant message that a socket event put into the
\* static view's transcript
LiveEntry(x) ==
  /\ x.via \in {"event", "stream"} /\ x.cls \in {"user", "assistant"} /\ ~x.streaming
  /\ x.sess = currentSessionId

\* C31: when the fetch of the viewed session's transcript completes (with a
\* transcript or with an error), every message that a socket event put into
\* the static view's transcript while the fetch was in flight is still
\* displayed.
C31_LiveKeptAcrossFetch ==
  [][\A k \in 1..MaxPending, r \in {"ok", "noreceipts", "empty", "error"} :
       (k <= Len(pendingLoads) /\ pendingLoads[k] = currentSessionId /\ LoadDone(k, r))
         => \A i \in DOMAIN msgsEl :
              LiveEntry(msgsEl[i])
                => \E j \in DOMAIN msgsEl' :
                     /\ msgsEl'[j].cls = msgsEl[i].cls
                     /\ msgsEl'[j].text = msgsEl[i].text]_vars

\* C32: a turn whose receipt arrived live and is then also in the answer of
\* the receipts fetch appears once in the combined receipt list: after the
\* answer the list has one entry per stored turn and one per live turn.
C32_TurnListedOnce ==
  [][lastOp'.op = "receipts"
       => \A n \in 1..MaxReceipts, d \in ReceiptDurations :
            RReceiptsFetched(n, d)
              => Len(shownReceipts') = Len(StoredReceipts(selectedSession)) + Len(receipts)]_vars

\* receipt summaries among the children of msgsEl
RenderedReceipts(els) == Cardinality({i \in DOMAIN els : els[i].cls = "receipt"})

\* C33: when loadSession's fetch is answered (both requests succeed), every
\* receipt of the answer is rendered exactly once, whatever the list of
\* messages is, the empty list included.
C33_EveryReceiptRendered ==
  [][\A k \in 1..MaxPending, r \in {"ok", "empty"} :
       (k <= Len(pendingLoads) /\ LoadDone(k, r))
         => RenderedReceipts(msgsEl') = Len(StoredReceipts(pendingLoads[k]))]_vars

\* C34: in either logs view the list of displayed log entries never holds
\* more than MAX_LINES entries, and neither does the buffer of entries held
\* back while paused.
C34_LogLineCap ==
  /\ Len(entries) <= MAX_LINES /\ Len(pendingRef) <= MAX_LINES
  /\ Len(logList) <= MAX_LINES /\ Len(pending) <= MAX_LINES

\* C37: the static logs view opens a /ws/logs socket only for the instance
\* that is the current view: once destroy() ran for an instance, no socket
\* of that instance is opened any more.
C37_NoSocketAfterDestroy ==
  [][Len(logSockets') > Len(logSockets)
       => /\ logsCurrent'
          /\ logSockets'[Len(logSockets')].inst = logInst']_vars

\* a done event has been handled for a turn with a non-empty buffer and its
\* finalize callback is stored
DonePending == pendingFinalize # NoText /\ streamBufferRef # <<>>

\* a delta arrived after that done
FurtherDelta == doneAt # NoTs /\ turns[Len(turns)] # <<>>

\* an animation frame has finalized the turn: everything revealed, both
\* buffers empty, no stored callback, no frame requested
Settled ==
  /\ lastOp.op = "frame"
  /\ streamBufferRef = <<>> /\ streamBuffer = <<>> /\ displayedStream = <<>>
  /\ revealedLen = 0
  /\ pendingFinalize = NoText
  /\ ~revealRaf

\* the stored callback runs: it appends the turn's message once (nothing
\* for a blank text)
FinalizedOnce ==
  (pendingFinalize # NoText /\ pendingFinalize' = NoText /\ lastOp'.op = "frame")
    => /\ revealedLen = Len(streamBufferRef)
       /\ liveMessages' = IF pendingFinalize = <<>> THEN liveMessages
                          ELSE Append(liveMessages, [role |-> "assistant",
                                                     content |-> pendingFinalize,
                                                     timestamp |-> now])

\* C35: once a done event has been handled for a turn with a non-empty
\* buffer, and animation frames keep firing, then unless a session switch
\* or a further delta comes the turn is eventually finalized by a frame:
\* the reveal has reached the end of the buffer, the message is appended
\* once, both buffers are empty, no callback is stored and no frame is
\* requested.
C35_FinalizationLiveness ==
  /\ DonePending ~> (Settled \/ FurtherDelta \/ lastOp.op = "switch")
  /\ [][FinalizedOnce]_vars

\* a frame has just finalized a turn and appended its message
C35_Witness ==
  /\ Settled
  /\ liveMessages # <<>>
  /\ liveMessages[Len(liveMessages)].role = "assistant"

\* the static view shows a streamed assistant turn with text t that
\* finaliseStream closed less than 30 s ago
LegacyStreamed(t) ==
  \E i \in DOMAIN msgsEl :
    /\ msgsEl[i].via = "stream" /\ ~msgsEl[i].streaming
    /\ msgsEl[i].text = t
    /\ now - msgsEl[i].at < DedupWindowMs

\* the React view's live list holds an assistant message with text t that
\* a finalization stamped (events of the model carry earlier timestamps)
ReactStreamed(t) ==
  \E i \in DOMAIN liveMessages :
    /\ liveMessages[i].role = "assistant"
    /\ liveMessages[i].content = t
    /\ liveMessages[i].timestamp >= NowStart

\* a session_message event with role assistant
AssistantEcho(e) == e.type = "session_message" /\ e.role = "assistant"

C38_ClosedSendChangesNothing ==
  [][\A d \in Drafts :
       /\ (~wsOpen /\ LegacySend(d))
            => /\ msgsEl' = msgsEl
               /\ pendingDedup' = pendingDedup
               /\ typingVisible' = typingVisible
       /\ (rWs # "open" /\ RSendMessage(d))
            => /\ liveMessages' = liveMessages
               /\ seenKeys' = seenKeys
               /\ typing' = typing]_vars

\* a reconnect timer of an owner is pending only while that owner has no
\* socket that is connecting or open
TimerOnlyWhileDown ==
  /\ wsReconnectRef # NoTs => rWs \notin {"connecting", "open"}
  /\ hookTimer # NoTs => hookWs \notin {"connecting", "open"}
  /\ wsTimer # NoTs => ~wsOpen /\ ~wsClosing

\* connect() runs (from a timer) only for an owner without a connecting or
\* open socket
NewSocketOnlyWhenDown ==
  /\ (wsReconnectRef # NoTs /\ wsReconnectRef' = NoTs /\ rWs' = "connecting")
       => rWs \notin {"connecting", "open"}
  /\ (hookTimer # NoTs /\ hookTimer' = NoTs /\ hookWs' = "connecting")
       => hookWs \notin {"connecting", "open"}
  /\ (wsTimer # NoTs /\ wsTimer' = NoTs) => ~wsOpen

\* a reconnect timer is started only while none is pending
OneTimer ==
  /\ rCloses' > rCloses => wsReconnectRef = NoTs
  /\ hookCloses' > hookCloses => hookTimer = NoTs
  /\ wsCloses' > wsCloses => wsTimer = NoTs

\* C39: each socket owner (React chat view, status hook, app.js) has at most
\* one socket that is connecting or open and at most one pending reconnect
\* timer, and a timer is pending only while no socket of the owner is
\* connecting or open, under any sequence of open, error, close and timer
\* events.
C39_SingleConnection ==
  /\ []TimerOnlyWhileDown
  /\ [][NewSocketOnlyWhenDown /\ OneTimer]_vars

\* every owner has lost a socket and is connecting again
C39_Witness ==
  /\ rCloses = 1 /\ rWs = "connecting" /\ wsReconnectRef = NoTs
  /\ hookCloses = 1 /\ hookWs = "connecting" /\ hookTimer = NoTs
  /\ wsCloses = 1 /\ ~wsOpen /\ wsTimer = NoTs /\ ~wsClosing

\* C40: the wsConnected flag of the shared UI store is true only while the
\* chat view's socket or the status hook's socket is open (or its close
\* event is still to be delivered): it does not stay true once the last of
\* them has closed.
C40_FlagMeansOpenSocket ==
  wsConnected => (rWs \in {"open", "closing"} \/ hookWs \in {"open", "closing"})

====
